---- MODULE Spec2Model ----
(***************************************************************************)
(* Verification model of the Rebutly matchmaking / debate / rating core.   *)
(*                                                                         *)
(*  Part A  rating settlement: the update-elo edge function (src/index.ts) *)
(*          and the result-submission handler (src/src/pages/Room.tsx).    *)
(*  Part B  matchmaking queue (src/unnamed/part_000, src/Play.tsx,         *)
(*          the queue uniqueness index of src/unnamed/part_002).           *)
(*  Part C  the AI-debate phase machine (src/unnamed/part_009 with the     *)
(*          TransitionCountdown of src/unnamed/part_007).                   *)
(*  Part D  the live (human-vs-human) room of src/HeroSection.tsx and the  *)
(*          shared-row functions advance_debate_phase / set_timer_state.   *)
(*  Part E  the life of a session: invite join (src/src/pages/Invite.tsx), *)
(*          connecting and leaving (src/HeroSection.tsx) and the status    *)
(*          writes of src/src/pages/Room.tsx.                              *)
(*                                                                         *)
(* Every await in the source is a step boundary: a handler is a small      *)
(* process whose pc says which await it is suspended at.                   *)
(***************************************************************************)
EXTENDS Integers, Sequences, FiniteSets, TLC

VARIABLES
  \* ---- Part A: rating settlement ----
  room,            \* the debate_rooms row under settlement
  submissions,     \* match_result_submissions rows of the room, in insertion order
  profiles,        \* profiles rows of the two human users
  match_history,   \* match_history rows, in insertion order
  elo,             \* the update-elo function serving a request
  eloCalls,        \* number of requests made to update-elo so far
  submit,          \* handleSubmitResult activations, one per participant
  clientRoom,      \* the `room` React state of each participant's Room page
  ratingWrites,    \* history variable: number of profile updates per user
  resubmit         \* history variable: the result each participant last
                   \* tried to submit in place of an earlier one

ratingVars == <<room, submissions, profiles, match_history, elo, eloCalls,
                submit, clientRoom, ratingWrites, resubmit>>

VARIABLES
  tabs,            \* who uses each client, and through which component
  queue,           \* match_queue_entries, by entry id
  rooms,           \* debate_rooms created through matchmaking, in creation order
  cl,              \* the searching clients (hook instances and Play pages)
  fb,              \* the hook's AI-fallback timer and callback, per entry
  mm,              \* matchmaking-worker invocations, per invoking client
  matchedCount     \* history variable: waiting -> matched transitions per entry

queueVars == <<tabs, queue, rooms, cl, fb, mm, matchedCount>>

VARIABLES
  pd,              \* React state of the PlayDebate page (AI debate)
  tcd,             \* React state of its TransitionCountdown overlay
  phaseLog,        \* history variable: speech phases entered, in order
  spoke            \* history variable: the phases in which an argument of
                   \* the user, and of the AI, was recorded; late: the
                   \* phases whose content was recorded in a later phase

debateVars == <<pd, tcd, phaseLog, spoke>>

VARIABLES
  lv,              \* React state of each participant's LiveDebateRoom page
  dbRoom,          \* the debate_rooms row of the live room
  connected_at,    \* debate_participants.connected_at set, per participant
  feed,            \* realtime messages not yet delivered, per client
  rpc,             \* what each caller of the room functions last read
  staleWrites      \* history variable: writes that replaced a value the
                   \* writer had not read, per field

liveVars == <<lv, dbRoom, connected_at, feed, rpc, staleWrites>>

VARIABLES
  sRoom,           \* the debate_rooms row of the invited room
  sParts,          \* its debate_participants rows, by user
  sInvite,         \* status of the room's invite
  ipage,           \* the Invite page of each invited user
  lpage,           \* the LiveDebateRoom page of each user
  sFeed,           \* delivery of the participant updates, per page
  leftLive         \* history variable: the first to hang up while the room was live

sessVars == <<sRoom, sParts, sInvite, ipage, lpage, sFeed, leftLive>>

vars == <<ratingVars, queueVars, debateVars, liveVars, sessVars>>

\* what each part of the model leaves alone
notRating == <<queueVars, debateVars, liveVars, sessVars, resubmit>>
otherParts == <<queueVars, debateVars, liveVars, sessVars>>
notQueue == <<ratingVars, debateVars, liveVars, sessVars>>
notDebate == <<ratingVars, queueVars, liveVars, sessVars>>
notLive == <<ratingVars, queueVars, debateVars, sessVars>>
notSess == <<ratingVars, queueVars, debateVars, liveVars>>

----------------------------------------------------------------------------
(***************************************************************************)
(* Part A.  Rating settlement                                              *)
(***************************************************************************)

\* Number of requests to update-elo explored.
MaxEloCalls == 2

\* u1 and u2 are the users matched into the room; u3 is another
\* authenticated user of the application.
Users == {"u1", "u2", "u3"}
Players == {"u1", "u2"}
Results == {"win", "loss", "draw"}

\* debate_participants rows with is_ai = false of the room
HumanParticipants(r) == IF r.is_ai_opponent THEN {"u1"} ELSE {"u1", "u2"}

\* `elo_by_format[format] || 1200`
DefaultRating == 1200
RatingOrDefault(x) == IF x = 0 THEN DefaultRating ELSE x

\* mutation: the lowest tier includes 1200
getKFactor_mut(rating) ==
  IF rating <= 1200 THEN 40
  ELSE IF rating < 2000 THEN 20
  ELSE 10

getKFactor(rating) ==
  IF rating < 1200 THEN 40
  ELSE IF rating < 2000 THEN 20
  ELSE 10

\* Tabulation of K * expected, where expected = 1 / (1 + 10^(d/400)) and
\* d = opponent rating - own rating.  KTimesExpected(K, d) is
\* ceil(K * expected - 1/2); RoundThreshold(K)[m] is the least integer d at
\* which that value drops below m (i.e. ceil(400 * log10(K/(m - 1/2) - 1))).
RoundThreshold(K) ==
  IF K = 10 THEN
    <<512, 302, 191, 108, 35, -34, -107, -190, -301, -511>>
  ELSE IF K = 20 THEN
    <<637, 437, 339, 270, 215, 169, 127, 89, 53, 18,
      -17, -52, -88, -126, -168, -214, -269, -338, -436, -636>>
  ELSE
    <<760, 564, 471, 408, 359, 319, 285, 255, 228, 203,
      180, 158, 137, 118, 99, 80, 62, 44, 27, 9,
      -8, -26, -43, -61, -79, -98, -117, -136, -157, -179,
      -202, -227, -254, -284, -318, -358, -407, -470, -563, -759>>

KTimesExpected(K, d) ==
  Cardinality({m \in 1..K : d < RoundThreshold(K)[m]})

\* mutation: the score is not halved
NewRating_mut(rating, opponent, score2) ==
  rating + getKFactor(rating) * score2
         - KTimesExpected(getKFactor(rating), opponent - rating)

\* Math.round(rating + k * (score - expected)); score2 is twice the score
\* (2 win, 1 draw, 0 loss).  For an integer rating and even k the rounding
\* is rating + k*score - ceil(k*expected - 1/2).
NewRating(rating, opponent, score2) ==
  rating + (getKFactor(rating) * score2) \div 2
         - KTimesExpected(getKFactor(rating), opponent - rating)

\* match_result_submissions of the room: at most one row per user
\* (unique_submission), held as user -> submitted_result, "none" for no row.
Submitted(subs) == {u \in Users : subs[u] # "none"}

IsConsistent_mut(subs) ==
  \/ \E u \in Submitted(subs) : subs[u] = "win"
  \/ \A u \in Submitted(subs) : subs[u] = "draw"

\* (hasWin && hasLoss) || allDraw over the rows read
IsConsistent(subs) ==
  \/ (\E u \in Submitted(subs) : subs[u] = "win")
     /\ (\E u \in Submitted(subs) : subs[u] = "loss")
  \/ \A u \in Submitted(subs) : subs[u] = "draw"

AllDraw(subs) == \A u \in Submitted(subs) : subs[u] = "draw"

\* submissions.find(s => s.submitted_result === 'win')?.user_id || null.
\* The select has no ORDER BY, so the first 'win' row may be any of them.
WinnerOf(subs) ==
  IF \E u \in Submitted(subs) : subs[u] = "win"
  THEN {u \in Submitted(subs) : subs[u] = "win"}
  ELSE {"null"}

NoProfile == [user_id |-> "null", elo |-> 0, total_debates |-> 0,
              total_wins |-> 0, current_streak |-> 0]

\* An instance of the function: its position, and what it has read so far.
\* afterSettled records whether a settlement of the room had already
\* completed when the request arrived.
\* response is the response of the last request served.
IdleElo == [pc |-> "idle", response |-> "none", afterSettled |-> FALSE, nsubs |-> 0,
            userA |-> NoProfile, userB |-> NoProfile,
            winner |-> "null", isDraw |-> FALSE,
            newRatingA |-> 0, newRatingB |-> 0, scoreA2 |-> 0, scoreB2 |-> 0,
            kA |-> 0, kB |-> 0]

NoRoom == [mode |-> "null", is_ai_opponent |-> FALSE, status |-> "null"]

\* Starting ratings of (u1, u2): pairs on both sides of the two tier
\* boundaries of getKFactor.
InitRatings == {<<1190, 1200>>, <<1200, 1200>>, <<2000, 1999>>}

InitRating ==
  /\ \E m \in {"ranked", "unranked"}, ai \in BOOLEAN :
       room = [mode |-> m, is_ai_opponent |-> ai, status |-> "live"]
  /\ submissions = [u \in Users |-> "none"]
  /\ \E rs \in InitRatings :
       profiles = [u \in Players |->
                     [user_id |-> u, elo |-> IF u = "u1" THEN rs[1] ELSE rs[2],
                      total_debates |-> 0, total_wins |-> 0, current_streak |-> 0]]
  /\ match_history = <<>>
  /\ elo = IdleElo
  /\ eloCalls = 0
  /\ submit = [u \in Players |-> "idle"]
  /\ clientRoom = [u \in Players |-> NoRoom]
  /\ ratingWrites = [u \in Players |-> 0]
  /\ resubmit = [u \in Players |-> "none"]

\* ---- the update-elo edge function (POST /) ----

\* Requests are served one after the other; the function keeps nothing
\* from one request to the next.
FreeElo ==
  /\ eloCalls < MaxEloCalls
  /\ elo.pc = "idle"

\* The request for the room is received and the room row is read: the
\* ranked / human-vs-human gate.  (mode and is_ai_opponent of a room are
\* never updated, so the read is taken with the request.)
Respond(r) == [IdleElo EXCEPT !.response = r]

StartElo ==
  IF room.mode # "ranked" \/ room.is_ai_opponent
  THEN Respond("ELO update not required")
  ELSE [IdleElo EXCEPT !.pc = "getSubmissions",
                       !.afterSettled = (Len(match_history) > 0)]

\* any caller may POST the room id to the function
EloRequest ==
  /\ FreeElo
  /\ elo' = StartElo
  /\ eloCalls' = eloCalls + 1
  /\ UNCHANGED <<room, submissions, profiles, match_history, submit,
                 clientRoom, ratingWrites>>
  /\ UNCHANGED notRating

\* select match_result_submissions; the count and consistency checks, and
\* the winner taken from the rows read
EloGetSubmissions ==
  /\ elo.pc = "getSubmissions"
  /\ \E w \in WinnerOf(submissions) :
       elo' =
          IF Cardinality(Submitted(submissions)) < 2
          THEN Respond("Not enough result submissions")
          ELSE IF ~IsConsistent(submissions) THEN Respond("Inconsistent results")
          ELSE [elo EXCEPT !.pc = "getProfiles",
                           !.nsubs = Cardinality(Submitted(submissions)),
                           !.isDraw = AllDraw(submissions),
                           !.winner = IF AllDraw(submissions) THEN "null"
                                      ELSE w]
  /\ UNCHANGED <<room, submissions, profiles, match_history, eloCalls,
                 submit, clientRoom, ratingWrites>>
  /\ UNCHANGED notRating

Score2(isDraw, winner, uid) ==
  IF isDraw THEN 1 ELSE IF winner = uid THEN 2 ELSE 0

\* select debate_participants and profiles, then the rating arithmetic;
\* userA = profiles[0], userB = profiles[1], in the order the select (which
\* has no ORDER BY) returned the two rows
EloGetProfiles ==
  /\ elo.pc = "getProfiles"
  /\ IF Cardinality(HumanParticipants(room)) < 2
     THEN elo' = Respond("Participants not found")
     ELSE \E a \in Players :
          LET userA   == profiles[a]
              userB   == profiles[CHOOSE b \in Players : b # a]
              ratingA == RatingOrDefault(userA.elo)
              ratingB == RatingOrDefault(userB.elo)
              sA      == Score2(elo.isDraw, elo.winner, userA.user_id)
              sB      == IF elo.isDraw THEN 1 ELSE 2 - sA
          IN elo' =
               [elo EXCEPT !.pc = "updateA",
                           !.userA = userA, !.userB = userB,
                           !.scoreA2 = sA, !.scoreB2 = sB,
                           !.kA = getKFactor(ratingA),
                           !.kB = getKFactor(ratingB),
                           !.newRatingA = NewRating(ratingA, ratingB, sA),
                           !.newRatingB = NewRating(ratingB, ratingA, sB)]
  /\ UNCHANGED <<room, submissions, profiles, match_history, eloCalls,
                 submit, clientRoom, ratingWrites>>
  /\ UNCHANGED notRating

\* profiles.update({...}).eq('id', user.id), built from the row read earlier
UpdatedProfile(old, newRating, score2) ==
  [old EXCEPT !.elo = newRating,
              !.total_debates = old.total_debates + 1,
              !.total_wins = IF score2 = 2 THEN old.total_wins + 1 ELSE old.total_wins,
              !.current_streak = IF score2 = 2 THEN old.current_streak + 1 ELSE 0]

EloUpdateA ==
  /\ elo.pc = "updateA"
  /\ LET a == elo.userA.user_id
     IN /\ profiles' = [profiles EXCEPT ![a] =
               UpdatedProfile(elo.userA, elo.newRatingA, elo.scoreA2)]
        /\ ratingWrites' = [ratingWrites EXCEPT ![a] = @ + 1]
  /\ elo' = [elo EXCEPT !.pc = "updateB"]
  /\ UNCHANGED <<room, submissions, match_history, eloCalls, submit,
                 clientRoom>>
  /\ UNCHANGED notRating

EloUpdateB ==
  /\ elo.pc = "updateB"
  /\ LET b == elo.userB.user_id
     IN /\ profiles' = [profiles EXCEPT ![b] =
               UpdatedProfile(elo.userB, elo.newRatingB, elo.scoreB2)]
        /\ ratingWrites' = [ratingWrites EXCEPT ![b] = @ + 1]
  /\ elo' = [elo EXCEPT !.pc = "insertHistory"]
  /\ UNCHANGED <<room, submissions, match_history, eloCalls, submit,
                 clientRoom>>
  /\ UNCHANGED notRating

HistoryRow(e) ==
  [user_a_id |-> e.userA.user_id, user_b_id |-> e.userB.user_id,
   winner_user_id |-> e.winner, is_draw |-> e.isDraw,
   rating_before_a |-> RatingOrDefault(e.userA.elo), rating_after_a |-> e.newRatingA,
   rating_before_b |-> RatingOrDefault(e.userB.elo), rating_after_b |-> e.newRatingB]

\* match_history.insert({...}); the response is sent and the instance ends
EloInsertHistory ==
  /\ elo.pc = "insertHistory"
  /\ match_history' = Append(match_history, HistoryRow(elo))
  /\ elo' = Respond("ELO updated successfully")
  /\ UNCHANGED <<room, submissions, profiles, eloCalls, submit,
                 clientRoom, ratingWrites>>
  /\ UNCHANGED notRating

\* a failure part-way through the writes: the request of a write throws,
\* or the worker is ended; the catch block answers 500 and nothing that
\* was written is taken back
EloFail ==
  /\ elo.pc \in {"updateA", "updateB", "insertHistory"}
  /\ elo' = Respond("Internal server error")
  /\ UNCHANGED <<room, submissions, profiles, match_history, eloCalls,
                 submit, clientRoom, ratingWrites>>
  /\ UNCHANGED notRating

\* ---- the Room page of a participant ----

HasSubmission(subs, u) == subs[u] # "none"

\* unique_submission UNIQUE (room_id, user_id): a second row is rejected,
\* and the callers ignore the returned error
InsertSubmission(subs, u, res) ==
  IF HasSubmission(subs, u) THEN subs
  ELSE [subs EXCEPT ![u] = res]

\* fetchRoom: the room row is readable by its participants only, and a
\* human-vs-human room redirects to the live page before setRoom; the page
\* (and so its End Match button) is shown for an AI-opponent room only
FetchRoom(u) ==
  /\ u \in HumanParticipants(room)
  /\ clientRoom[u] = NoRoom
  /\ room.is_ai_opponent
  /\ clientRoom' = [clientRoom EXCEPT ![u] = room]
  /\ UNCHANGED <<room, submissions, profiles, match_history, elo, eloCalls,
                 submit, ratingWrites>>
  /\ UNCHANGED notRating

\* handleSubmitResult: insert the submission ("End Match" is offered while
\* the page shows a live room and nothing was submitted from it yet)
SubmitInsert(u, res) ==
  /\ submit[u] = "idle"
  /\ clientRoom[u].status = "live"
  /\ submissions' = InsertSubmission(submissions, u, res)
  /\ submit' = [submit EXCEPT ![u] = "select"]
  /\ UNCHANGED <<room, profiles, match_history, elo, eloCalls, clientRoom,
                 ratingWrites>>
  /\ UNCHANGED notRating

\* handleSubmitResult: re-read the submissions and test them
SubmitSelect(u) ==
  /\ submit[u] = "select"
  /\ submit' = [submit EXCEPT ![u] =
       IF Cardinality(Submitted(submissions)) >= 2 /\ IsConsistent(submissions)
       THEN "complete" ELSE "done"]
  /\ UNCHANGED <<room, submissions, profiles, match_history, elo, eloCalls,
                 clientRoom, ratingWrites>>
  /\ UNCHANGED notRating

\* handleSubmitResult: debate_rooms.update({status: 'completed'}).eq('id', id),
\* then, if the page's room is ranked and has no AI opponent,
\* supabase.functions.invoke('update-elo', {roomId: id})
SubmitComplete(u) ==
  /\ submit[u] = "complete"
  /\ room' = [room EXCEPT !.status = "completed"]
  /\ submit' = [submit EXCEPT ![u] = "done"]
  /\ IF clientRoom[u].mode = "ranked" /\ ~clientRoom[u].is_ai_opponent
     THEN FreeElo /\ elo' = StartElo /\ eloCalls' = eloCalls + 1
     ELSE UNCHANGED <<elo, eloCalls>>
  /\ UNCHANGED <<submissions, profiles, match_history, clientRoom, ratingWrites>>
  /\ UNCHANGED notRating

\* "Users can insert own submissions": WITH CHECK (auth.uid() = user_id) --
\* any authenticated user may insert a row for the room under their own id
DirectSubmission(u, res) ==
  /\ ~HasSubmission(submissions, u)
  /\ submissions' = InsertSubmission(submissions, u, res)
  /\ UNCHANGED <<room, profiles, match_history, elo, eloCalls, submit,
                 clientRoom, ratingWrites>>
  /\ UNCHANGED notRating

\* A participant whose submission is part of an inconsistent pair submits
\* again.  A second insert breaks unique_submission; the table has no
\* UPDATE and no DELETE policy, so an update or delete touches no row.
Resubmit(u, res) ==
  /\ Submitted(submissions) = Players
  /\ ~IsConsistent(submissions)
  /\ res # submissions[u]
  /\ submissions' = InsertSubmission(submissions, u, res)
  /\ resubmit' = [resubmit EXCEPT ![u] = res]
  /\ UNCHANGED <<room, profiles, match_history, elo, eloCalls, submit,
                 clientRoom, ratingWrites>>
  /\ UNCHANGED otherParts

\* ratings a user writes into the own profile row
ClientRatings == {2400}

\* "Users can update own profile": an update of the own profiles row
\* through the API passes row-level security whatever columns it sets
ClientUpdateProfile(u, rating) ==
  /\ profiles[u].elo # rating
  /\ profiles' = [profiles EXCEPT ![u].elo = rating]
  /\ UNCHANGED <<room, submissions, match_history, elo, eloCalls, submit,
                 clientRoom, ratingWrites>>
  /\ UNCHANGED notRating

NextRating ==
  \/ EloRequest
  \/ EloGetSubmissions
  \/ EloGetProfiles
  \/ EloUpdateA
  \/ EloUpdateB
  \/ EloInsertHistory
  \/ EloFail
  \/ \E u \in Players : FetchRoom(u)
  \/ \E u \in Players, res \in Results : SubmitInsert(u, res)
  \/ \E u \in Players : SubmitSelect(u)
  \/ \E u \in Players : SubmitComplete(u)
  \/ \E u \in Users, res \in Results : DirectSubmission(u, res)
  \/ \E u \in Players, res \in Results : Resubmit(u, res)

\* The rating records under every writer they have: settlement of a
\* ranked human-vs-human room, and the users' own profile updates.
InitProfiles ==
  /\ room = [mode |-> "ranked", is_ai_opponent |-> FALSE, status |-> "live"]
  /\ submissions = [u \in Users |-> "none"]
  /\ profiles = [u \in Players |->
                   [user_id |-> u, elo |-> DefaultRating,
                    total_debates |-> 0, total_wins |-> 0, current_streak |-> 0]]
  /\ match_history = <<>>
  /\ elo = IdleElo
  /\ eloCalls = 0
  /\ submit = [u \in Players |-> "idle"]
  /\ clientRoom = [u \in Players |-> NoRoom]
  /\ ratingWrites = [u \in Players |-> 0]
  /\ resubmit = [u \in Players |-> "none"]

NextProfiles ==
  \/ EloRequest
  \/ EloGetSubmissions
  \/ EloGetProfiles
  \/ EloUpdateA
  \/ EloUpdateB
  \/ EloInsertHistory
  \/ EloFail
  \/ \E u \in Users, res \in Results : DirectSubmission(u, res)
  \/ \E u \in Players, rating \in ClientRatings : ClientUpdateProfile(u, rating)

\* ---- properties of rating settlement ----

Writing == elo.pc \in {"updateA", "updateB", "insertHistory"}

\* exactly two submissions that are either {win, loss} or {draw, draw}
ValidPair(subs) ==
  /\ Cardinality(Submitted(subs)) = 2
  /\ \/ \E a, b \in Submitted(subs) : subs[a] = "win" /\ subs[b] = "loss"
     \/ \A a \in Submitted(subs) : subs[a] = "draw"

\* C1: a settle request that arrives after a settlement of the same session
\* has completed is a no-op: it never reaches the rating writes, so there
\* is one MatchHistoryEntry and one rating mutation however often it is called.
C1_SecondSettleIsNoOp ==
  /\ elo.afterSettled => ~Writing
  /\ (elo.pc = "idle" /\ eloCalls >= 2) => Len(match_history) <= 1

\* C2: when both participants of a ranked human-vs-human session have
\* submitted consistent results, then however the steps that follow the
\* two submissions interleave, each rating of the session is mutated at most
\* once and at most one MatchHistoryEntry is recorded.
C2_SettledAtMostOnce ==
  ( /\ room.mode = "ranked" /\ ~room.is_ai_opponent
    /\ Submitted(submissions) = Players
    /\ IsConsistent(submissions) )
  => /\ \A u \in Players : ratingWrites[u] <= 1
     /\ Len(match_history) <= 1

\* C9: when the two submissions read are inconsistent (not {win, loss} and
\* not {draw, draw}) settlement answers "Inconsistent results" and changes
\* no rating and writes no history; a submit handler that reads such a pair
\* neither completes the session nor requests settlement.
C9_InconsistentNoChange ==
  [][ /\ ( /\ elo.pc = "getSubmissions" /\ elo'.pc # "getSubmissions"
           /\ Cardinality(Submitted(submissions)) = 2
           /\ ~ValidPair(submissions) )
         => ( /\ elo' = Respond("Inconsistent results")
              /\ profiles' = profiles /\ match_history' = match_history )
      /\ \A u \in Players :
           ( /\ submit[u] = "select" /\ submit'[u] # "select"
             /\ Cardinality(Submitted(submissions)) = 2
             /\ ~ValidPair(submissions) )
           => ( submit'[u] = "done" /\ room' = room /\ elo' = elo ) ]_vars

\* C9 witness: settlement has answered "Inconsistent results" for a ranked
\* human-vs-human session holding two inconsistent submissions, and nothing
\* was written.
C9_Witness ==
  /\ elo.response = "Inconsistent results"
  /\ Cardinality(Submitted(submissions)) = 2
  /\ ~ValidPair(submissions)
  /\ match_history = <<>>
  /\ \A u \in Players : ratingWrites[u] = 0

\* C10: settlement writes ratings only for a ranked session without AI
\* opponent for which it read exactly two submissions.
C10_WritesOnlyForTwoSubmissions ==
  Writing => /\ room.mode = "ranked"
             /\ ~room.is_ai_opponent
             /\ elo.nsubs = 2

\* C13: settlement is all-or-nothing: in every reachable state, also
\* after a failure part-way through, both participants' rating records
\* have been updated the same number of times, and that many history
\* entries of the session are recorded.
C13_AllOrNothing ==
  /\ ratingWrites["u1"] = ratingWrites["u2"]
  /\ ratingWrites["u1"] = Len(match_history)

\* C14: a rating record (rating, total sessions, total wins, streak)
\* changes only as an effect of settlement: every step that changes a
\* profile is one of the two profile updates of update-elo.
C14_OnlySettlementWrites ==
  [][profiles' # profiles =>
       /\ elo.pc \in {"updateA", "updateB"}
       /\ elo'.pc \in {"updateB", "insertHistory"}]_vars

\* C15: after two inconsistent submissions the participants are able to
\* resubmit: the result a participant submits in place of the earlier
\* one is the one stored, so that a consistent pair can follow.
C15_ResubmissionAccepted ==
  \A u \in Players : resubmit[u] # "none" => submissions[u] = resubmit[u]

\* C38: only the participants of the session hold a submission for it,
\* and settlement writes ratings only when both participants themselves
\* have submitted: a row of any other user is rejected and settles nothing.
C38_OnlyParticipantsSubmit ==
  /\ \A u \in Users \ HumanParticipants(room) : ~HasSubmission(submissions, u)
  /\ Writing => (\A u \in HumanParticipants(room) : HasSubmission(submissions, u))

\* a settlement has computed its ratings for two 1200-rated users and a
\* decisive result
EvenDecisive ==
  /\ Writing
  /\ RatingOrDefault(elo.userA.elo) = 1200
  /\ RatingOrDefault(elo.userB.elo) = 1200
  /\ ~elo.isDraw

\* the K-factor and the rating changes of the winner and of the loser
WinnerK == IF elo.scoreA2 = 2 THEN elo.kA ELSE elo.kB
WinnerChange ==
  IF elo.scoreA2 = 2 THEN elo.newRatingA - RatingOrDefault(elo.userA.elo)
                     ELSE elo.newRatingB - RatingOrDefault(elo.userB.elo)
LoserChange ==
  IF elo.scoreA2 = 2 THEN elo.newRatingB - RatingOrDefault(elo.userB.elo)
                     ELSE elo.newRatingA - RatingOrDefault(elo.userA.elo)

\* C11 as amended: with both ratings 1200 and a decisive win, settlement
\* uses K = 20 (1200 is in the middle tier) and changes the winner's
\* rating by +10 and the loser's by -10.
C11_EvenWinIsTen ==
  EvenDecisive => /\ elo.kA = 20 /\ elo.kB = 20
                  /\ WinnerChange = 10
                  /\ LoserChange = -10

\* C11 as stated: with both ratings 1200 and a decisive win, settlement
\* uses K = 40 and changes the winner's rating by +20 and the loser's
\* by -20.
C11_EvenWinIsTwenty ==
  EvenDecisive => /\ WinnerK = 40
                  /\ WinnerChange = 20
                  /\ LoserChange = -20

\* C11 witness: a settlement of a decisive result between two 1200-rated
\* users was recorded with ratings 1210 and 1190.
C11_Witness ==
  \E i \in 1..Len(match_history) :
    LET h == match_history[i]
    IN /\ h.rating_before_a = 1200 /\ h.rating_before_b = 1200
       /\ ~h.is_draw
       /\ {h.rating_after_a, h.rating_after_b} = {1210, 1190}

\* C12: the K-factor applied to a side is determined only by that side's
\* current rating: 40 below 1200, 20 from 1200 to below 2000, 10 at or
\* above 2000; and it is the factor by which that side's rating moved.
C12_KFactorBySideTier ==
  LET TierK(rating) == IF rating < 1200 THEN 40
                       ELSE IF rating >= 2000 THEN 10
                       ELSE 20
  IN
  Writing =>
    /\ elo.kA = TierK(RatingOrDefault(elo.userA.elo))
    /\ elo.kB = TierK(RatingOrDefault(elo.userB.elo))
    /\ elo.newRatingA = RatingOrDefault(elo.userA.elo) + (elo.kA * elo.scoreA2) \div 2
          - KTimesExpected(elo.kA, RatingOrDefault(elo.userB.elo)
                                    - RatingOrDefault(elo.userA.elo))
    /\ elo.newRatingB = RatingOrDefault(elo.userB.elo) + (elo.kB * elo.scoreB2) \div 2
          - KTimesExpected(elo.kB, RatingOrDefault(elo.userA.elo)
                                    - RatingOrDefault(elo.userB.elo))

\* C12 witness: one settlement applied different factors to its two
\* sides, 10 to a side rated 2000 and 20 to a side rated 1999.
C12_Witness ==
  /\ Writing
  /\ \/ RatingOrDefault(elo.userA.elo) = 2000 /\ elo.kA = 10
        /\ RatingOrDefault(elo.userB.elo) = 1999 /\ elo.kB = 20
     \/ RatingOrDefault(elo.userB.elo) = 2000 /\ elo.kB = 10
        /\ RatingOrDefault(elo.userA.elo) = 1999 /\ elo.kA = 20

----------------------------------------------------------------------------
(***************************************************************************)
(* Part B.  Queue, matcher and AI fallback                                 *)
(***************************************************************************)

\* Number of queue entries ever inserted.
MaxEntries == 2

EntryIds == 1..MaxEntries

\* Two browser tabs search for a match.  c1 runs the useMatchmaking hook for
\* u1; c2 is either a second tab of u1 running the hook as well, or the
\* Play page of u2.
QClients == {"c1", "c2"}
QUsers == {"u1", "u2"}
SecondTabs == {[user |-> "u1", component |-> "hook"],
               [user |-> "u2", component |-> "page"]}
HookClients == {c \in QClients : tabs[c].component = "hook"}
PageClients == {c \in QClients : tabs[c].component = "page"}
ClientUser(c) == tabs[c].user

\* the worker is invoked by each client on enqueue, and may run periodically
Matchers == QClients \cup {"periodic"}

OpponentTypes == {"human_only", "human_then_ai", "ai_only"}

NoEntry == [user |-> "null", client |-> "null", status |-> "none",
            room_id |-> 0, fresh |-> FALSE]

\* entry: queueEntry / queueEntryId (0 for null); live: the timers and the
\* realtime channel are running; at: where the client has navigated
\* (0 nowhere, a room id, or -1 for the page's local AI debate);
\* rejected: the last insert returned an error; aiFor: the entry whose
\* search ended in the page's AI debate.
IdleClient == [pc |-> "idle", entry |-> 0, live |-> FALSE, at |-> 0,
               opponent_type |-> "null", rejected |-> FALSE, aiFor |-> 0]

IdleFallback == [pc |-> "off", room |-> 0]

\* aborted: a compare-and-swap of this invocation failed
IdleMatcher == [pc |-> "idle", trigger |-> 0, partner |-> 0, matchFound |-> FALSE,
                roomId |-> 0, aborted |-> FALSE]

AIDebate == -1

InitQueue ==
  /\ \E t \in SecondTabs :
       tabs = [c \in QClients |-> IF c = "c1" THEN [user |-> "u1", component |-> "hook"]
                                  ELSE t]
  /\ queue = [e \in EntryIds |-> NoEntry]
  /\ rooms = <<>>
  /\ cl = [c \in QClients |-> IdleClient]
  /\ fb = [e \in EntryIds |-> IdleFallback]
  /\ mm = [c \in Matchers |-> IdleMatcher]
  /\ matchedCount = [e \in EntryIds |-> 0]

Waiting(q, u) == {e \in EntryIds : q[e].user = u /\ q[e].status = "waiting"}

\* the id the next inserted row gets
NextEntryId == Cardinality({e \in EntryIds : queue[e].status # "none"}) + 1

\* delete().eq('user_id', user.id).eq('status', 'waiting')
DeleteWaitingOf(q, u) ==
  [e \in EntryIds |-> IF e \in Waiting(q, u) THEN [q[e] EXCEPT !.status = "deleted"]
                      ELSE q[e]]

DeleteIfWaiting_mut(q, e) ==
  IF e \in EntryIds THEN [q EXCEPT ![e].status = "deleted"] ELSE q

\* delete().eq('id', id).eq('status', 'waiting')
DeleteIfWaiting(q, e) ==
  IF e \in EntryIds /\ q[e].status = "waiting"
  THEN [q EXCEPT ![e].status = "deleted"] ELSE q

\* one_active_queue_per_user_waiting: UNIQUE (user_id) WHERE status = 'waiting'
InsertAllowed_mut(q, u) == TRUE

InsertAllowed(q, u) == Waiting(q, u) = {}

\* joinQueue / handleFindHumanMatch: delete the user's waiting entries
EnqueueDelete(c) ==
  /\ cl[c].pc = "idle"
  /\ cl[c].at = 0
  /\ NextEntryId \in EntryIds
  /\ queue' = DeleteWaitingOf(queue, ClientUser(c))
  /\ cl' = [cl EXCEPT ![c] = [IdleClient EXCEPT !.pc = "insert"]]
  /\ UNCHANGED <<rooms, fb, mm, matchedCount>>
  /\ UNCHANGED <<tabs, notQueue>>

\* joinQueue / handleFindHumanMatch: insert the waiting entry; on an insert
\* error the handler ends in its catch block; otherwise the timers, the
\* heartbeat and the subscription are started and matchmaking-worker is
\* invoked for the entry.  ot is the opponentType of the settings the
\* search was started with (the page always asks for human_then_ai).
EnqueueInsert(c, ot) ==
  /\ cl[c].pc = "insert"
  /\ ot \in (IF c \in PageClients THEN {"human_then_ai"} ELSE OpponentTypes)
  /\ NextEntryId \in EntryIds
  /\ mm[c].pc = "idle"
  /\ IF InsertAllowed(queue, ClientUser(c))
     THEN /\ queue' = [queue EXCEPT ![NextEntryId] =
                 [user |-> ClientUser(c), client |-> c, status |-> "waiting",
                  room_id |-> 0, fresh |-> TRUE]]
          /\ cl' = [cl EXCEPT ![c].pc = "await", ![c].entry = NextEntryId,
                              ![c].live = TRUE, ![c].opponent_type = ot]
          /\ mm' = [mm EXCEPT ![c] = [IdleMatcher EXCEPT !.pc = "scan",
                                                         !.trigger = NextEntryId]]
     ELSE /\ cl' = [cl EXCEPT ![c] = [IdleClient EXCEPT !.rejected = TRUE]]
          /\ UNCHANGED <<queue, mm>>
  /\ UNCHANGED <<rooms, fb, matchedCount>>
  /\ UNCHANGED <<tabs, notQueue>>

\* ---- matchmaking-worker: tryMatch(triggerEntryId) ----

\* the response of an invocation; a periodic run has no caller waiting for it
Return(c, found, r) ==
  IF c = "periodic" THEN IdleMatcher
  ELSE [mm[c] EXCEPT !.pc = "done", !.matchFound = found, !.roomId = r]

\* a periodic run of the worker, for some waiting entry
MatcherPeriodic(e) ==
  /\ mm["periodic"].pc = "idle"
  /\ queue[e].status = "waiting"
  /\ mm' = [mm EXCEPT !["periodic"] = [IdleMatcher EXCEPT !.pc = "scan",
                                                          !.trigger = e]]
  /\ UNCHANGED <<queue, rooms, cl, fb, matchedCount>>
  /\ UNCHANGED <<tabs, notQueue>>

\* waiting entries other than the trigger whose heartbeat is within the
\* liveness window
Candidates(q, t) ==
  {e \in EntryIds : e # t /\ q[e].status = "waiting" /\ q[e].fresh}

\* nearest rating, ties broken by earliest joinedAt (all entries of the
\* model carry the same rating, so the oldest candidate is taken)
Partner(q, t) == CHOOSE e \in Candidates(q, t) : \A f \in Candidates(q, t) : e <= f

MatcherScan(c) ==
  /\ mm[c].pc = "scan"
  /\ LET t == mm[c].trigger
     IN mm' = [mm EXCEPT ![c] =
          IF queue[t].status # "waiting" \/ Candidates(queue, t) = {}
          THEN Return(c, FALSE, 0)
          ELSE [mm[c] EXCEPT !.pc = "claim", !.partner = Partner(queue, t)]]
  /\ UNCHANGED <<queue, rooms, cl, fb, matchedCount>>
  /\ UNCHANGED <<tabs, notQueue>>

\* both entries still waiting: the condition of the compare-and-swap
BothWaiting_mut(q, t, p) == TRUE

BothWaiting(q, t, p) == q[t].status = "waiting" /\ q[p].status = "waiting"

\* step 1: transition both entries waiting -> matched, conditioned on each
\* still being waiting; otherwise abort and scan again
MatcherClaim(c) ==
  /\ mm[c].pc = "claim"
  /\ LET t == mm[c].trigger
         p == mm[c].partner
     IN IF BothWaiting(queue, t, p)
        THEN /\ queue' = [queue EXCEPT ![t].status = "matched",
                                       ![p].status = "matched"]
             /\ matchedCount' = [matchedCount EXCEPT ![t] = @ + 1, ![p] = @ + 1]
             /\ mm' = [mm EXCEPT ![c].pc = "create"]
        ELSE /\ mm' = [mm EXCEPT ![c].pc = "scan", ![c].partner = 0,
                                 ![c].aborted = TRUE]
             /\ UNCHANGED <<queue, matchedCount>>
  /\ UNCHANGED <<rooms, cl, fb>>
  /\ UNCHANGED <<tabs, notQueue>>

\* steps 2 and 3: create the Session in reserved state with its two
\* participants, and record matchedSessionId on both entries
MatcherCreate(c) ==
  /\ mm[c].pc = "create"
  /\ LET t == mm[c].trigger
         p == mm[c].partner
         r == Len(rooms) + 1
     IN /\ rooms' = Append(rooms, [status |-> "reserved", is_ai_opponent |-> FALSE,
                                   entries |-> {t, p}])
        /\ queue' = [queue EXCEPT ![t].room_id = r, ![p].room_id = r]
        /\ mm' = [mm EXCEPT ![c] = Return(c, TRUE, r)]
  /\ UNCHANGED <<cl, fb, matchedCount>>
  /\ UNCHANGED <<tabs, notQueue>>

\* ---- the clients, continued ----

HasFallback_mut(ot) == TRUE

HasFallback(ot) == ot \in {"human_then_ai", "ai_only"}

\* joinQueue after the invoke returned: set up the AI fallback timer.  A
\* timer armed after cleanup (cancel or navigation during the invoke) would
\* find the entry deleted or matched and do nothing; it is not armed here.
HookResume(c) ==
  /\ c \in HookClients
  /\ cl[c].pc = "await"
  /\ mm[c].pc = "done"
  /\ mm' = [mm EXCEPT ![c] = IdleMatcher]
  /\ cl' = [cl EXCEPT ![c].pc = IF cl[c].live \/ cl[c].at # 0 THEN "searching"
                                 ELSE "idle",
                      ![c].opponent_type = "null"]
  /\ fb' = IF cl[c].live /\ HasFallback(cl[c].opponent_type)
           THEN [fb EXCEPT ![mm[c].trigger].pc = "armed"]
           ELSE fb
  /\ UNCHANGED <<queue, rooms, matchedCount>>
  /\ UNCHANGED <<tabs, notQueue>>

\* handleFindHumanMatch after the invoke returned: navigate if the worker
\* reports matchFound and roomId
PageResume(c) ==
  /\ c \in PageClients
  /\ cl[c].pc = "await"
  /\ mm[c].pc = "done"
  /\ mm' = [mm EXCEPT ![c] = IdleMatcher]
  /\ cl' = [cl EXCEPT ![c] =
       IF mm[c].matchFound /\ mm[c].roomId # 0
       THEN [cl[c] EXCEPT !.pc = "searching", !.live = FALSE, !.entry = 0,
                          !.at = mm[c].roomId]
       ELSE [cl[c] EXCEPT !.pc = IF cl[c].live \/ cl[c].at # 0 THEN "searching"
                                 ELSE "idle"]]
  /\ UNCHANGED <<queue, rooms, fb, matchedCount>>
  /\ UNCHANGED <<tabs, notQueue>>

\* cleanup(): the hook's pending fallback timer is cleared; a callback that
\* has already started keeps running
ClearTimer(f, e) ==
  IF e \in EntryIds /\ f[e].pc = "armed" THEN [f EXCEPT ![e].pc = "off"] ELSE f

\* postgres_changes UPDATE on the client's entry: matched with a room_id
Notified(c) ==
  /\ cl[c].live
  /\ cl[c].entry \in EntryIds
  /\ queue[cl[c].entry].status = "matched"
  /\ queue[cl[c].entry].room_id # 0
  /\ cl' = [cl EXCEPT ![c].live = FALSE, ![c].at = queue[cl[c].entry].room_id,
                      ![c].entry = IF c \in PageClients THEN 0 ELSE cl[c].entry]
  /\ fb' = ClearTimer(fb, cl[c].entry)
  /\ UNCHANGED <<queue, rooms, mm, matchedCount>>
  /\ UNCHANGED <<tabs, notQueue>>

Heartbeat_mut(c) ==
  /\ cl[c].live
  /\ cl[c].entry \in EntryIds
  /\ queue' = [queue EXCEPT ![cl[c].entry].fresh = TRUE]
  /\ UNCHANGED <<rooms, cl, fb, mm, matchedCount>>
  /\ UNCHANGED <<tabs, notQueue>>

\* sendHeartbeat: update last_heartbeat_at where id = entry and status = waiting
Heartbeat(c) ==
  /\ cl[c].live
  /\ cl[c].entry \in EntryIds
  /\ queue' = IF queue[cl[c].entry].status = "waiting"
              THEN [queue EXCEPT ![cl[c].entry].fresh = TRUE]
              ELSE queue
  /\ UNCHANGED <<rooms, cl, fb, mm, matchedCount>>
  /\ UNCHANGED <<tabs, notQueue>>

\* the client of entry e still runs its heartbeat interval for e
Heartbeating(e) == cl[queue[e].client].live /\ cl[queue[e].client].entry = e

\* time passes: the last heartbeat of an entry that is no longer refreshed
\* (its client has stopped sending heartbeats, or the entry is not waiting
\* any more, so that the heartbeats do not reach it) falls out of the
\* liveness window
Age(e) ==
  /\ queue[e].status \in {"waiting", "matched"}
  /\ queue[e].fresh
  /\ queue[e].status = "waiting" => ~Heartbeating(e)
  /\ queue' = [queue EXCEPT ![e].fresh = FALSE]
  /\ UNCHANGED <<rooms, cl, fb, mm, matchedCount>>
  /\ UNCHANGED <<tabs, notQueue>>

\* cancelQueue / handleCancelSearch: cleanup, then delete the entry if it
\* is still waiting
Cancel(c) ==
  /\ cl[c].live
  /\ cl[c].at = 0
  /\ cl[c].entry \in EntryIds
  /\ queue' = DeleteIfWaiting(queue, cl[c].entry)
  /\ fb' = ClearTimer(fb, cl[c].entry)
  /\ cl' = [cl EXCEPT ![c].live = FALSE, ![c].entry = 0,
                      ![c].pc = IF cl[c].pc = "searching" THEN "idle" ELSE cl[c].pc]
  /\ UNCHANGED <<rooms, mm, matchedCount>>
  /\ UNCHANGED <<tabs, notQueue>>

\* ---- the hook's AI fallback (setTimeout callback and createAIMatch) ----

\* the timer fires: the entry is read again
FallbackFire(e) ==
  /\ fb[e].pc = "armed"
  /\ fb' = [fb EXCEPT ![e].pc = IF queue[e].status = "waiting" THEN "create"
                                ELSE "off"]
  /\ UNCHANGED <<queue, rooms, cl, mm, matchedCount>>
  /\ UNCHANGED <<tabs, notQueue>>

\* createAIMatch: insert the room (status live, is_ai_opponent) and its
\* human and AI participants
FallbackCreateRoom(e) ==
  /\ fb[e].pc = "create"
  /\ rooms' = Append(rooms, [status |-> "live", is_ai_opponent |-> TRUE,
                             entries |-> {e}])
  /\ fb' = [fb EXCEPT ![e].pc = "update", ![e].room = Len(rooms) + 1]
  /\ UNCHANGED <<queue, cl, mm, matchedCount>>
  /\ UNCHANGED <<tabs, notQueue>>

\* createAIMatch: update({status: 'matched', room_id}).eq('id', entry.id),
\* then cleanup() and navigate to the room
FallbackUpdateEntry(e) ==
  /\ fb[e].pc = "update"
  /\ LET c == queue[e].client
     IN /\ queue' = IF queue[e].status = "deleted" THEN queue
                    ELSE [queue EXCEPT ![e].status = "matched",
                                       ![e].room_id = fb[e].room]
        /\ matchedCount' = IF queue[e].status = "waiting"
                           THEN [matchedCount EXCEPT ![e] = @ + 1]
                           ELSE matchedCount
        /\ cl' = [cl EXCEPT ![c].live = FALSE, ![c].at = fb[e].room]
        /\ fb' = [ClearTimer(fb, cl[c].entry) EXCEPT ![e] = IdleFallback]
  /\ UNCHANGED <<rooms, mm>>
  /\ UNCHANGED <<tabs, notQueue>>

\* ---- the Play page's AI fallback ----

\* handleAIFallback, called by the search timer at HUMAN_SEARCH_TIMEOUT:
\* clear the timers and the channel, delete the entry named by the
\* queueEntryId the callback closed over if it is still waiting, and start
\* the AI debate.  The search timer holds the callback of the render in
\* which the search was started, where queueEntryId was null.
PageFallback(c) ==
  /\ c \in PageClients
  /\ cl[c].live
  /\ queue' = DeleteIfWaiting(queue, 0)
  /\ cl' = [cl EXCEPT ![c].live = FALSE, ![c].entry = 0, ![c].at = AIDebate,
                      ![c].aiFor = cl[c].entry]
  /\ UNCHANGED <<rooms, fb, mm, matchedCount>>
  /\ UNCHANGED <<tabs, notQueue>>

NextQueue ==
  \/ \E c \in QClients : EnqueueDelete(c)
  \/ \E c \in QClients, ot \in OpponentTypes : EnqueueInsert(c, ot)
  \/ \E e \in EntryIds : MatcherPeriodic(e)
  \/ \E c \in Matchers : MatcherScan(c)
  \/ \E c \in Matchers : MatcherClaim(c)
  \/ \E c \in Matchers : MatcherCreate(c)
  \/ \E c \in QClients : HookResume(c)
  \/ \E c \in QClients : PageResume(c)
  \/ \E c \in QClients : Notified(c)
  \/ \E c \in QClients : Heartbeat(c)
  \/ \E e \in EntryIds : Age(e)
  \/ \E c \in QClients : Cancel(c)
  \/ \E e \in EntryIds : FallbackFire(e)
  \/ \E e \in EntryIds : FallbackCreateRoom(e)
  \/ \E e \in EntryIds : FallbackUpdateEntry(e)
  \/ \E c \in QClients : PageFallback(c)

\* ---- properties of the queue ----

\* the sessions the Matcher created for entry e
MatcherRooms(e) ==
  {r \in 1..Len(rooms) : ~rooms[r].is_ai_opponent /\ e \in rooms[r].entries}

\* the sessions and AI debates started for entry e
StartedFor(e) ==
  Cardinality({r \in 1..Len(rooms) : e \in rooms[r].entries})
  + Cardinality({c \in QClients : cl[c].aiFor = e})

\* C3: however many Matcher invocations run concurrently on the same two
\* waiting entries, each entry goes waiting -> matched at most once, at most
\* one invocation holds the pair after its compare-and-swap, and exactly one
\* Session exists for the pair once that invocation has created it.
C3_OneSessionPerPair ==
  /\ \A e \in EntryIds : matchedCount[e] <= 1 /\ Cardinality(MatcherRooms(e)) <= 1
  /\ \A c, d \in Matchers :
       (c # d /\ mm[c].pc = "create" /\ mm[d].pc = "create")
       => {mm[c].trigger, mm[c].partner} \cap {mm[d].trigger, mm[d].partner} = {}
  /\ \A c \in Matchers :
       mm[c].pc = "create"
       => MatcherRooms(mm[c].trigger) = {} /\ MatcherRooms(mm[c].partner) = {}
  /\ \A c \in QClients :
       (mm[c].pc = "done" /\ mm[c].matchFound)
       => /\ MatcherRooms(mm[c].trigger) = {mm[c].roomId}
          /\ MatcherRooms(mm[c].partner) = {mm[c].roomId}

\* C3 witness: two invocations went for the same pair; one created the
\* pair's Session, the other lost its compare-and-swap.
C3_Witness ==
  \E c, d \in QClients :
    /\ c # d
    /\ mm[c].pc = "done" /\ mm[c].matchFound
    /\ mm[d].aborted
    /\ mm[d].trigger \in {mm[c].trigger, mm[c].partner}
    /\ Len(rooms) = 1

\* C4: for a queue entry on which the Matcher and the AI fallback race, at
\* most one session or AI debate is ever started: the losing path starts
\* nothing for the entry.
C4_OneWinner == \A e \in EntryIds : StartedFor(e) <= 1

\* C5: there is never more than one waiting queue entry of a participant.
C5_OneWaitingPerUser == \A u \in QUsers : Cardinality(Waiting(queue, u)) <= 1

\* C5 witness: two enqueues of one participant ran concurrently; one
\* inserted its waiting entry, the other's insert was rejected.
C5_Witness ==
  \E c \in QClients :
    /\ cl[c].rejected
    /\ Waiting(queue, ClientUser(c)) # {}

\* the AI-opponent sessions and AI debates started for entry e
AISessionsFor(e) ==
  Cardinality({r \in 1..Len(rooms) : rooms[r].is_ai_opponent /\ e \in rooms[r].entries})
  + Cardinality({c \in QClients : cl[c].aiFor = e})

\* C18: the AI-fallback timer of an enqueue is set once, by the enqueue's
\* own client, and only for the human_then_ai and ai_only preferences,
\* never for human_only; it starts at most one AI-opponent session or AI
\* debate for the entry, never two.
C18_FallbackOncePerEnqueue ==
  /\ [](\A e \in EntryIds : AISessionsFor(e) <= 1)
  /\ [][\A e \in EntryIds :
          (fb'[e].pc = "armed" /\ fb[e].pc # "armed")
          => /\ fb[e] = IdleFallback
             /\ AISessionsFor(e) = 0
             /\ cl[queue[e].client].pc = "await"
             /\ cl[queue[e].client].entry = e
             /\ cl[queue[e].client].opponent_type \in {"human_then_ai", "ai_only"}]_vars

\* C18 witness: the fallback timer of an entry has fired and its callback
\* has created the entry's one AI-opponent session and recorded it on the
\* entry.
C18_Witness ==
  \E e \in EntryIds :
    /\ AISessionsFor(e) = 1
    /\ fb[e] = IdleFallback
    /\ queue[e].status = "matched"
    /\ queue[e].room_id \in 1..Len(rooms)
    /\ rooms[queue[e].room_id].is_ai_opponent
    /\ e \in rooms[queue[e].room_id].entries

\* C19: an enqueue with the ai_only preference gets its AI-opponent session
\* at once, whatever the Matcher does: the entry is never put into a
\* Matcher session, and by the time the human match attempt made for it has
\* an outcome its zero-length fallback timer has already been set.
C19_AiOnlyImmediate ==
  \A c \in HookClients :
    (cl[c].opponent_type = "ai_only" /\ cl[c].pc = "await" /\ cl[c].entry \in EntryIds)
    => /\ MatcherRooms(cl[c].entry) = {}
       /\ mm[c].pc = "done"
          => (fb[cl[c].entry].pc # "off" \/ AISessionsFor(cl[c].entry) = 1)

\* client c cancels its search in this step (the only step that stops a
\* client's timers and channel without taking it anywhere)
CancelStep(c) ==
  /\ cl[c].live /\ cl[c].at = 0
  /\ ~cl'[c].live /\ cl'[c].at = 0 /\ cl'[c].entry = 0

\* C20: a cancel changes no entry other than the canceller's own, and that
\* one only if it is still waiting; cancelling an entry that is already
\* matched leaves the entry, its session and every other session unchanged.
C20_CancelOnlyWaiting ==
  [][\A c \in QClients :
       CancelStep(c)
       => /\ rooms' = rooms
          /\ \A e \in EntryIds :
               queue'[e] # queue[e]
               => /\ e = cl[c].entry
                  /\ queue[e].status = "waiting"
                  /\ queue'[e] = [queue[e] EXCEPT !.status = "deleted"]]_vars

\* C20 witness: the client of an entry that the Matcher has matched and
\* given a session has cancelled before it was notified; the entry is still
\* matched and still names the session.
C20_Witness ==
  \E e \in EntryIds :
    /\ queue[e].status = "matched"
    /\ queue[e].room_id \in 1..Len(rooms)
    /\ e \in rooms[queue[e].room_id].entries
    /\ ~cl[queue[e].client].live
    /\ cl[queue[e].client].at = 0
    /\ cl[queue[e].client].entry = 0

\* the search for entry e was cancelled: its client has dropped the entry
\* and the entry is deleted
Cancelled(e) ==
  /\ queue[e].status = "deleted"
  /\ cl[queue[e].client].entry # e
  /\ ~cl[queue[e].client].live

\* C37: once the cancel of an entry has completed, no session is created
\* for that entry and its client is not taken to an AI session or debate
\* for it, even if the fallback callback had read the entry as waiting
\* before the cancel.
C37_NoSessionAfterCancel ==
  [][\A e \in EntryIds :
       Cancelled(e)
       => /\ \A r \in (Len(rooms) + 1)..Len(rooms') : e \notin rooms'[r].entries
          /\ (fb[e].pc = "update") => (cl'[queue[e].client].at = cl[queue[e].client].at)]_vars

----------------------------------------------------------------------------
(***************************************************************************)
(* Part C.  The AI-debate phase machine                                    *)
(*                                                                         *)
(* One PlayDebate page with its always-mounted TransitionCountdown.  Time  *)
(* is counted in ticks of the one-second intervals; a speech timer and the *)
(* transition countdown both start at MaxTicks.  The effect that resets    *)
(* the overlay runs in the commit that changes its isVisible prop, so it   *)
(* is part of the step that changes it.                                    *)
(***************************************************************************)

MaxTicks == 2

phaseOrder == <<"prop_constructive", "opp_constructive", "prop_rebuttal",
                "opp_rebuttal", "prop_closing", "opp_closing">>

Sides == {"proposition", "opposition"}
TransitionModes == {"tick", "auto", "both"}

IsSpeechPhase(p) == \E i \in 1..Len(phaseOrder) : phaseOrder[i] = p

\* phaseOrder.indexOf, 1-based; 0 when absent
IndexOf(p) ==
  IF IsSpeechPhase(p)
    THEN CHOOSE i \in 1..Len(phaseOrder) : phaseOrder[i] = p
    ELSE 0

\* mutation: the successor of a phase is the phase itself
getNextPhase_mut(currentPhase) ==
  LET currentIndex == IndexOf(currentPhase)
  IN IF currentIndex >= 1 /\ currentIndex < Len(phaseOrder)
       THEN phaseOrder[currentIndex]
       ELSE "null"

getNextPhase(currentPhase) ==
  LET currentIndex == IndexOf(currentPhase)
  IN IF currentIndex >= 1 /\ currentIndex < Len(phaseOrder)
       THEN phaseOrder[currentIndex + 1]
       ELSE "null"

StartsWithProp(p) == p \in {"prop_constructive", "prop_rebuttal", "prop_closing"}
StartsWithOpp(p) == p \in {"opp_constructive", "opp_rebuttal", "opp_closing"}

isUserPhase(userSide, currentPhase) ==
  IF userSide = "proposition" THEN StartsWithProp(currentPhase)
                              ELSE StartsWithOpp(currentPhase)

\* mutation: the AI is given the phases of the user's own side
isAIPhase_mut(userSide, currentPhase) ==
  IF userSide = "proposition" THEN StartsWithProp(currentPhase)
                              ELSE StartsWithOpp(currentPhase)

isAIPhase(userSide, currentPhase) ==
  IF userSide = "proposition" THEN StartsWithOpp(currentPhase)
                              ELSE StartsWithProp(currentPhase)

\* useState initial values of PlayDebate; aiPc is the position of the
\* pending getAIResponseWithSpeech call and of the timeout that follows it
InitialDebate ==
  [phase |-> "setup", timeLeft |-> MaxTicks, isTimerRunning |-> FALSE,
   showTransition |-> FALSE, nextPhaseAfterTransition |-> "null",
   userSide |-> "proposition", transitionMode |-> "both",
   aiPc |-> "idle", aiPhase |-> "null", isSpeaking |-> FALSE,
   feedback |-> "none", userInput |-> "null", isRecording |-> FALSE]

\* useState initial values of TransitionCountdown
InitialCountdown ==
  [confirmed |-> FALSE, countdown |-> MaxTicks, isCountingDown |-> FALSE,
   autoStartTimer |-> FALSE]

InitDebate ==
  /\ pd = InitialDebate
  /\ tcd = InitialCountdown
  /\ phaseLog = <<>>
  /\ spoke = [user |-> {}, ai |-> {}, fallback |-> {}, late |-> {}]

\* the isVisible prop PlayDebate passes to the overlay
isVisible(d) == d.showTransition /\ ~d.isSpeaking

\* mutation: the 500 ms start timer is armed in every mode
ResetEffect_mut(t, d, d2) ==
  IF ~isVisible(d) /\ isVisible(d2)
    THEN [confirmed |-> FALSE, countdown |-> MaxTicks, isCountingDown |-> FALSE,
          autoStartTimer |-> TRUE]
    ELSE IF isVisible(d) /\ ~isVisible(d2)
      THEN [t EXCEPT !.autoStartTimer = FALSE]
      ELSE t

\* the overlay's effect on [isVisible, mode]: reset when it becomes
\* visible (auto mode arms the 500 ms start timer), cleanup when it hides
ResetEffect(t, d, d2) ==
  IF ~isVisible(d) /\ isVisible(d2)
    THEN [confirmed |-> FALSE, countdown |-> MaxTicks, isCountingDown |-> FALSE,
          autoStartTimer |-> (d2.transitionMode = "auto")]
    ELSE IF isVisible(d) /\ ~isVisible(d2)
      THEN [t EXCEPT !.autoStartTimer = FALSE]
      ELSE t

showTransitionScreen(d, nextPhase) ==
  [d EXCEPT !.nextPhaseAfterTransition = nextPhase, !.showTransition = TRUE]

\* handleTransitionComplete up to its await (AI phase) or its end (user phase)
handleTransitionComplete(d) ==
  LET nextPhase == d.nextPhaseAfterTransition
      d1 == [d EXCEPT !.showTransition = FALSE]
  IN IF nextPhase = "null" THEN d1
     ELSE IF isAIPhase(d.userSide, nextPhase)
       THEN [d1 EXCEPT !.phase = nextPhase, !.aiPc = "responding",
                       !.aiPhase = nextPhase]
       ELSE [d1 EXCEPT !.phase = nextPhase, !.timeLeft = MaxTicks,
                       !.isTimerRunning = TRUE,
                       !.nextPhaseAfterTransition = "null"]

\* the log after a call of handleTransitionComplete in state d
LogTransition(d, log) ==
  IF d.nextPhaseAfterTransition = "null" THEN log
  ELSE Append(log, d.nextPhaseAfterTransition)

\* mutation: the speech timer is started again when the debate completes
handlePhaseEnd_mut(d) ==
  LET nextPhase == getNextPhase(d.phase)
  IN IF nextPhase # "null" THEN showTransitionScreen(d, nextPhase)
     ELSE [d EXCEPT !.phase = "debate_complete", !.isTimerRunning = TRUE,
                    !.timeLeft = MaxTicks]

handlePhaseEnd(d) ==
  LET nextPhase == getNextPhase(d.phase)
  IN IF nextPhase # "null" THEN showTransitionScreen(d, nextPhase)
     ELSE [d EXCEPT !.phase = "debate_complete"]

\* DebateSetup's onComplete
handleSetupComplete(side, mode) ==
  /\ pd.phase = "setup"
  /\ pd' = [pd EXCEPT !.userSide = side, !.transitionMode = mode,
                      !.phase = "prep"]
  /\ tcd' = ResetEffect(tcd, pd, pd')
  /\ UNCHANGED <<phaseLog, spoke, notDebate>>

\* PrepTimer's onComplete and onSkip; on the opposition side the 500 ms
\* timeout then calls getAIResponseWithSpeech('opening')
startDebate ==
  /\ pd.phase = "prep"
  /\ pd' = IF pd.userSide = "proposition"
             THEN [pd EXCEPT !.phase = "prop_constructive",
                             !.timeLeft = MaxTicks, !.isTimerRunning = TRUE]
             ELSE [pd EXCEPT !.phase = "prop_constructive",
                             !.aiPc = "opening"]
  /\ phaseLog' = Append(phaseLog, "prop_constructive")
  /\ tcd' = ResetEffect(tcd, pd, pd')
  /\ UNCHANGED <<spoke, notDebate>>

\* userInput is modelled by the phase its text was written or spoken for
\* ("null": empty).  handleAutoSubmit records a non-empty input as the
\* user's argument; addMessage stamps it with the current phase
handleAutoSubmit(d, sp) ==
  IF d.userInput = "null" THEN sp
  ELSE [sp EXCEPT !.user = @ \cup {d.phase},
                  !.late = IF d.userInput = d.phase THEN @
                           ELSE @ \cup {d.userInput}]

\* the input, its send button and the microphone button are rendered only
\* while isCurrentlyUserSpeaking
isCurrentlyUserSpeaking(d) ==
  IsSpeechPhase(d.phase) /\ isUserPhase(d.userSide, d.phase) /\ d.isTimerRunning

\* the user types into the empty input
TypeInput ==
  /\ isCurrentlyUserSpeaking(pd) /\ pd.userInput = "null"
  /\ pd' = [pd EXCEPT !.userInput = pd.phase]
  /\ UNCHANGED <<tcd, phaseLog, spoke, notDebate>>

\* the microphone button starts or stops the speech recognition
toggleRecording ==
  /\ isCurrentlyUserSpeaking(pd)
  /\ pd' = [pd EXCEPT !.isRecording = ~pd.isRecording]
  /\ UNCHANGED <<tcd, phaseLog, spoke, notDebate>>

\* the user's speech phase entered last
LastUserPhase(d, log) ==
  LET idx == {i \in 1..Len(log) : isUserPhase(d.userSide, log[i])}
  IN  log[CHOOSE i \in idx : \A j \in idx : j <= i]

\* onTranscript(text, isFinal = true): the recogniser delivers the final
\* result of what the user said in their phase, and it is appended to the
\* input; the recognition started in a user's phase keeps running until
\* the microphone button stops it
VoiceFinal ==
  /\ pd.isRecording /\ pd.userInput = "null"
  /\ pd' = [pd EXCEPT !.userInput = LastUserPhase(pd, phaseLog)]
  /\ UNCHANGED <<tcd, phaseLog, spoke, notDebate>>

\* one tick of the speech timer; the last one submits what is left in
\* the input (handleAutoSubmit) and ends the phase
TimerTick ==
  /\ pd.isTimerRunning /\ pd.timeLeft > 0
  /\ IF pd.timeLeft <= 1
       THEN /\ pd' = handlePhaseEnd([pd EXCEPT !.isTimerRunning = FALSE,
                                               !.timeLeft = 0,
                                               !.userInput = "null"])
            /\ spoke' = handleAutoSubmit(pd, spoke)
       ELSE /\ pd' = [pd EXCEPT !.timeLeft = pd.timeLeft - 1]
            /\ UNCHANGED spoke
  /\ tcd' = ResetEffect(tcd, pd, pd')
  /\ UNCHANGED <<phaseLog, notDebate>>

\* what getAIResponseWithSpeech leaves behind when it returns, and its
\* caller's continuation.  ok: the debate-ai call returned a response;
\* otherwise the catch block records the static fallback response and no
\* speech is started.  speaking: the speech started is still playing.
AIResponded_mut(d, ok, speaking) ==
  IF ~ok THEN d
  ELSE IF d.aiPc = "opening"
    THEN [d EXCEPT !.aiPc = "afterOpening", !.isSpeaking = speaking]
    ELSE [d EXCEPT !.aiPc = "after", !.isSpeaking = speaking,
                   !.nextPhaseAfterTransition = "null"]

AIResponded(d, ok, speaking) ==
  IF d.aiPc = "opening"
    THEN [d EXCEPT !.aiPc = "afterOpening",
                   !.isSpeaking = IF ok THEN speaking ELSE d.isSpeaking]
    ELSE [d EXCEPT !.aiPc = "after",
                   !.isSpeaking = IF ok THEN speaking ELSE d.isSpeaking,
                   !.nextPhaseAfterTransition = "null"]

\* getAIResponseWithSpeech returns: its wait polls the isSpeaking of its
\* own closure, so the speech may still be playing.  The caller arms its
\* timeout; handleTransitionComplete then clears nextPhaseAfterTransition
AIRespond ==
  /\ pd.aiPc \in {"opening", "responding"}
  /\ \E ok \in BOOLEAN, speaking \in BOOLEAN :
       /\ ~ok => ~speaking
       /\ pd' = AIResponded(pd, ok, speaking)
       /\ spoke' = [spoke EXCEPT !.ai = @ \cup {pd.phase},
                                 !.fallback = IF ok THEN @ ELSE @ \cup {pd.phase}]
  /\ tcd' = ResetEffect(tcd, pd, pd')
  /\ UNCHANGED <<phaseLog, notDebate>>

\* the AI's speech ends
AISpeechEnd ==
  /\ pd.isSpeaking
  /\ pd' = [pd EXCEPT !.isSpeaking = FALSE]
  /\ tcd' = ResetEffect(tcd, pd, pd')
  /\ UNCHANGED <<phaseLog, spoke, notDebate>>

\* the timeout armed after the AI's speech
AITimeout ==
  /\ pd.aiPc \in {"afterOpening", "after"}
  /\ LET d == [pd EXCEPT !.aiPc = "idle", !.aiPhase = "null"]
         followingPhase == getNextPhase(pd.aiPhase)
     IN pd' = IF pd.aiPc = "afterOpening"
                THEN showTransitionScreen(d, "opp_constructive")
                ELSE IF followingPhase # "null"
                  THEN showTransitionScreen(d, followingPhase)
                  ELSE [d EXCEPT !.phase = "debate_complete"]
  /\ tcd' = ResetEffect(tcd, pd, pd')
  /\ UNCHANGED <<phaseLog, spoke, notDebate>>

\* the overlay's confirm button (tick mode, or both mode before confirming)
handleConfirm ==
  /\ isVisible(pd) /\ ~tcd.isCountingDown
  /\ pd.transitionMode = "tick" \/ (pd.transitionMode = "both" /\ ~tcd.confirmed)
  /\ IF pd.transitionMode = "tick"
       THEN /\ pd' = handleTransitionComplete(pd)
            /\ phaseLog' = LogTransition(pd, phaseLog)
            /\ tcd' = ResetEffect([tcd EXCEPT !.confirmed = TRUE], pd, pd')
       ELSE /\ tcd' = [tcd EXCEPT !.confirmed = TRUE, !.isCountingDown = TRUE]
            /\ UNCHANGED <<pd, phaseLog>>
  /\ UNCHANGED <<spoke, notDebate>>

\* auto mode: the 500 ms timer starts the countdown
AutoStart ==
  /\ tcd.autoStartTimer
  /\ tcd' = [tcd EXCEPT !.autoStartTimer = FALSE, !.isCountingDown = TRUE]
  /\ UNCHANGED <<pd, phaseLog, spoke, notDebate>>

\* one tick of the countdown; the last one calls onComplete
CountdownTick ==
  /\ tcd.isCountingDown /\ tcd.countdown > 0
  /\ IF tcd.countdown <= 1
       THEN /\ pd' = handleTransitionComplete(pd)
            /\ phaseLog' = LogTransition(pd, phaseLog)
            /\ tcd' = ResetEffect([tcd EXCEPT !.isCountingDown = FALSE,
                                              !.countdown = 0], pd, pd')
       ELSE /\ tcd' = [tcd EXCEPT !.countdown = tcd.countdown - 1]
            /\ UNCHANGED <<pd, phaseLog>>
  /\ UNCHANGED <<spoke, notDebate>>

\* mutation: Skip countdown calls onComplete and leaves the countdown running
handleSkipCountdown_mut ==
  /\ isVisible(pd) /\ tcd.isCountingDown
  /\ pd' = handleTransitionComplete(pd)
  /\ phaseLog' = LogTransition(pd, phaseLog)
  /\ tcd' = ResetEffect(tcd, pd, pd')
  /\ UNCHANGED <<spoke, notDebate>>

\* "Skip countdown", shown while counting
handleSkipCountdown ==
  /\ isVisible(pd) /\ tcd.isCountingDown
  /\ pd' = handleTransitionComplete(pd)
  /\ phaseLog' = LogTransition(pd, phaseLog)
  /\ tcd' = ResetEffect([tcd EXCEPT !.isCountingDown = FALSE], pd, pd')
  /\ UNCHANGED <<spoke, notDebate>>

\* "Skip to next round", shown in auto mode before the countdown starts
SkipToNextRound ==
  /\ isVisible(pd) /\ ~tcd.isCountingDown /\ pd.transitionMode = "auto"
  /\ pd' = handleTransitionComplete(pd)
  /\ phaseLog' = LogTransition(pd, phaseLog)
  /\ tcd' = ResetEffect(tcd, pd, pd')
  /\ UNCHANGED <<spoke, notDebate>>

\* mutation: the input is shown in every speech phase
handleSendMessage_mut ==
  /\ IsSpeechPhase(pd.phase)
  /\ spoke' = [spoke EXCEPT !.user = @ \cup {pd.phase}]
  /\ pd' = [pd EXCEPT !.userInput = "null"]
  /\ UNCHANGED <<tcd, phaseLog, notDebate>>

\* the user sends an argument; the input and its send button are
\* rendered only while isCurrentlyUserSpeaking
handleSendMessage ==
  /\ isCurrentlyUserSpeaking(pd)
  /\ pd.userInput # "null"
  /\ spoke' = handleAutoSubmit(pd, spoke)
  /\ pd' = [pd EXCEPT !.userInput = "null"]
  /\ UNCHANGED <<tcd, phaseLog, notDebate>>

\* "Hear Judgement": generateFeedback up to its await
generateFeedback ==
  /\ pd.phase = "debate_complete"
  /\ pd' = [pd EXCEPT !.phase = "analyzing"]
  /\ tcd' = ResetEffect(tcd, pd, pd')
  /\ UNCHANGED <<phaseLog, spoke, notDebate>>

\* the feedback generateFeedback sets: the one the call returned, or the
\* static one of its catch block
FeedbackOf(ok) == IF ok THEN "ai" ELSE "fallback"

\* generateFeedback after callDebateAI('generate_feedback') returned or threw
FeedbackReturn ==
  /\ pd.phase = "analyzing"
  /\ \E ok \in BOOLEAN :
       pd' = [pd EXCEPT !.feedback = FeedbackOf(ok), !.phase = "feedback"]
  /\ tcd' = ResetEffect(tcd, pd, pd')
  /\ UNCHANGED <<phaseLog, spoke, notDebate>>

\* "Continue", rendered while phase === 'feedback' && feedback
ShowResults ==
  /\ pd.phase = "feedback" /\ pd.feedback # "none"
  /\ pd' = [pd EXCEPT !.phase = "results"]
  /\ tcd' = ResetEffect(tcd, pd, pd')
  /\ UNCHANGED <<phaseLog, spoke, notDebate>>

NextDebate ==
  \/ \E side \in Sides, mode \in TransitionModes : handleSetupComplete(side, mode)
  \/ startDebate
  \/ TimerTick
  \/ AIRespond
  \/ AISpeechEnd
  \/ AITimeout
  \/ handleConfirm
  \/ AutoStart
  \/ CountdownTick
  \/ handleSkipCountdown
  \/ SkipToNextRound
  \/ handleSendMessage
  \/ TypeInput
  \/ toggleRecording
  \/ VoiceFinal
  \/ generateFeedback
  \/ FeedbackReturn
  \/ ShowResults

----------------------------------------------------------------------------
(* Properties of the AI-debate phase machine                               *)

\* C6: in every session the speech phases entered are, in this order,
\* prop_constructive, opp_constructive, prop_rebuttal, opp_rebuttal,
\* prop_closing, opp_closing: the phases entered so far are always an
\* initial part of that order (none skipped, none entered twice), the
\* phase shown is the last one entered, and a completed debate has
\* entered all six.
C6_FixedPhaseOrder ==
  /\ Len(phaseLog) <= Len(phaseOrder)
  /\ \A i \in 1..Len(phaseLog) : phaseLog[i] = phaseOrder[i]
  /\ IsSpeechPhase(pd.phase) =>
       (phaseLog # <<>> /\ phaseLog[Len(phaseLog)] = pd.phase)
  /\ pd.phase = "debate_complete" => phaseLog = phaseOrder

\* the side speaking now: the user's while the speech timer runs, the
\* AI's while its speech is being fetched and delivered
SpeakerSide ==
  IF pd.isTimerRunning THEN pd.userSide
  ELSE IF pd.aiPc \in {"opening", "responding"}
    THEN (IF pd.userSide = "proposition" THEN "opposition" ELSE "proposition")
    ELSE "none"

\* C16: the side holding proposition is the speaker in prop_constructive,
\* prop_rebuttal and prop_closing (and opposition in the opp_ phases),
\* whether it is held by the human or by the AI, and in each pair of
\* phases entered the proposition phase comes before the opposition one.
C16_PropositionSpeaksFirst ==
  /\ SpeakerSide # "none" =>
        /\ IsSpeechPhase(pd.phase)
        /\ SpeakerSide = "proposition" <=> StartsWithProp(pd.phase)
        /\ SpeakerSide = "opposition" <=> StartsWithOpp(pd.phase)
  /\ \A i \in 1..Len(phaseLog) :
        IF i % 2 = 1 THEN StartsWithProp(phaseLog[i])
                     ELSE /\ StartsWithOpp(phaseLog[i])
                          /\ StartsWithProp(phaseLog[i - 1])

\* C16 witness: the AI holds proposition and is delivering the
\* proposition rebuttal, before the user's opposition rebuttal.
C16_Witness ==
  /\ pd.userSide = "opposition"
  /\ pd.phase = "prop_rebuttal"
  /\ SpeakerSide = "proposition"
  /\ phaseLog = <<"prop_constructive", "opp_constructive", "prop_rebuttal">>

\* the AI's speech is being fetched and delivered
AIActive == pd.aiPc \in {"opening", "responding"}

AfterDebate == {"debate_complete", "analyzing", "feedback", "results"}

\* C27: the debate completes when opp_closing ends, and from then on no
\* speech phase is entered, the speech timer does not run, no AI speech
\* is requested and no argument of either side is recorded.
C27_NoSpeechAfterComplete ==
  [][ /\ (pd'.phase = "debate_complete" /\ pd.phase # "debate_complete")
            => pd.phase = "opp_closing"
      /\ pd.phase \in AfterDebate
            => /\ pd'.phase \in AfterDebate
               /\ ~pd'.isTimerRunning
               /\ ~pd'.showTransition
               /\ pd'.aiPc = "idle"
               /\ spoke' = spoke
               /\ phaseLog' = phaseLog
    ]_vars

\* C27 witness: a debate in which both sides spoke has completed after
\* the six phases and has gone on to its results.
C27_Witness ==
  /\ pd.phase = "results"
  /\ phaseLog = phaseOrder
  /\ spoke.user # {} /\ spoke.ai # {}

\* C34: when the user's timer reaches zero, what the user wrote or said
\* for the expiring phase is recorded as their argument of that phase: no
\* content of an expired phase is left pending once the debate has moved
\* on, and none is recorded under a later phase
C34_ExpiryKeepsContent ==
  /\ spoke.late = {}
  /\ (pd.userInput # "null") => (pd.userInput = pd.phase)

\* a step that ends a transition pause by starting the phase it announced
PauseEnds ==
  /\ pd.showTransition
  /\ pd.nextPhaseAfterTransition # "null"
  /\ pd'.phase = pd.nextPhaseAfterTransition
  /\ pd'.phase # pd.phase

C33_StartsOnlyAtZero ==
  [][(PauseEnds /\ tcd.isCountingDown) => tcd'.countdown = 0]_vars

\* C33, amended: a countdown starts from its full length and goes down
\* one by one; a pause whose countdown runs ends at the tick that takes
\* the countdown from one to zero, or earlier only by Skip countdown on
\* the visible overlay; and the step that ends a pause stops the
\* countdown, its start timer and the overlay, so that the completion
\* is called once per pause.
C33_CountdownOrSkip ==
  /\ [](tcd.countdown \in 0..MaxTicks)
  /\ [][ /\ (tcd'.isCountingDown /\ ~tcd.isCountingDown)
               => (tcd'.countdown = MaxTicks)
         /\ (tcd'.countdown # tcd.countdown)
               => (tcd'.countdown = tcd.countdown - 1 \/ tcd'.countdown = MaxTicks)
         /\ (PauseEnds /\ tcd.isCountingDown)
               => (\/ (tcd.countdown = 1 /\ tcd'.countdown = 0)
                   \/ (isVisible(pd) /\ tcd'.countdown = tcd.countdown))
         /\ PauseEnds
               => (/\ ~tcd'.isCountingDown
                   /\ ~tcd'.autoStartTimer
                   /\ ~pd'.showTransition)
       ]_vars

\* C33 witness: in auto mode a countdown has run down to zero and the
\* phase it announced has started
C33_Witness ==
  /\ pd.transitionMode = "auto"
  /\ Len(phaseLog) >= 2
  /\ pd.phase = phaseLog[Len(phaseLog)]
  /\ tcd.countdown = 0 /\ ~tcd.isCountingDown
  /\ ~pd.showTransition

\* C29: a failed debate-ai call does not stop the session.  A failed
\* opponent-response call records the static fallback speech as the AI's
\* argument of the phase and its caller goes on to the timeout that ends
\* the phase, as after a successful call; after the judgement call,
\* failed or not, a feedback is set (the static one on failure), so that
\* the feedback screen and its way to the results are there.
C29_FallbackKeepsGoing ==
  /\ [](/\ spoke.fallback \subseteq spoke.ai
        /\ (pd.phase \in {"feedback", "results"}) => (pd.feedback \in {"ai", "fallback"}))
  /\ [][ /\ (spoke'.fallback # spoke.fallback)
              => (/\ pd.aiPc \in {"opening", "responding"}
                  /\ pd'.aiPc \in {"afterOpening", "after"}
                  /\ spoke'.fallback = spoke.fallback \cup {pd.phase}
                  /\ spoke'.ai = spoke.ai \cup {pd.phase}
                  /\ pd'.phase = pd.phase)
         /\ (pd.phase = "analyzing" /\ pd'.phase # "analyzing")
              => (pd'.phase = "feedback" /\ pd'.feedback # "none")
       ]_vars

\* C29 witness: a debate in which an opponent-response call and the
\* judgement call failed has gone through its six phases and reached the
\* results with the static feedback.
C29_Witness ==
  /\ pd.phase = "results"
  /\ pd.feedback = "fallback"
  /\ spoke.fallback # {}
  /\ phaseLog = phaseOrder

\* C6 witness: a debate run to completion through confirmed transitions
\* with countdowns has entered the six phases.
C6_Witness ==
  /\ pd.phase = "debate_complete"
  /\ phaseLog = phaseOrder
  /\ pd.transitionMode = "both"
  /\ tcd.confirmed

----------------------------------------------------------------------------
(***************************************************************************)
(* Part D.  The live (human-vs-human) room                                 *)
(*                                                                         *)
(* Two participants each run a LiveDebateRoom page on one reserved room.   *)
(* The page keeps its phase in React state.  The room row carries          *)
(* current_phase and timer_state, written only through the functions       *)
(* advance_debate_phase and set_timer_state; they are callable by either   *)
(* participant, each call carrying what the caller last read.              *)
(***************************************************************************)

MaxTimerWrites == 2

LiveUsers == {"u1", "u2"}

OtherUser(u) == CHOOSE v \in LiveUsers : v # u

\* values passed as p_next_phase
NextPhases == {"waiting", "prep", "prop_constructive"}

\* the order of the phases a room row goes through, as far as NextPhases
RoomPhaseOrder == <<"waiting", "prep", "prop_constructive">>

\* useState initial values of LiveDebateRoom; pc is the await at which
\* fetchRoom is suspended, status the status in the roomData it read.
\* resumeFrom is history: the phase the page showed when it was reloaded
InitialLive ==
  [pc |-> "mount", phase |-> "loading", status |-> "none",
   showTransition |-> FALSE, nextPhaseAfterTransition |-> "null",
   transitionMode |-> "both", resumeFrom |-> "none"]

NoFeed == [participants |-> FALSE, user_ready |-> FALSE]

InitLive ==
  /\ lv = [u \in LiveUsers |-> InitialLive]
  /\ dbRoom = [status |-> "reserved", current_phase |-> "waiting",
               timer_state |-> 0]
  /\ connected_at = [u \in LiveUsers |-> FALSE]
  /\ feed = [u \in LiveUsers |-> NoFeed]
  /\ rpc = [u \in LiveUsers |-> [current_phase |-> "waiting", timer_state |-> 0,
                                  ret |-> "none"]]
  /\ staleWrites = [current_phase |-> 0, timer_state |-> 0]

\* humanParticipants.every(p => p.connected_at) with both rows present
allConnected(conn) == \A u \in LiveUsers : conn[u]

\* fetchRoom: the select of the room row
LiveFetchRoom(u) ==
  /\ lv[u].pc = "mount"
  /\ lv' = [lv EXCEPT ![u].pc = "fetched", ![u].status = dbRoom.status]
  /\ rpc' = [rpc EXCEPT ![u].current_phase = dbRoom.current_phase]
  /\ UNCHANGED <<dbRoom, connected_at, feed, staleWrites, notLive>>

\* fetchRoom: the update of connected_at, which the realtime feed reports
\* to every page subscribed to the room's participants
LiveMarkConnected(u) ==
  /\ lv[u].pc = "fetched"
  /\ connected_at' = [connected_at EXCEPT ![u] = TRUE]
  /\ feed' = [v \in LiveUsers |-> [feed[v] EXCEPT !.participants = TRUE]]
  /\ lv' = [lv EXCEPT ![u].pc = "marked"]
  /\ UNCHANGED <<dbRoom, rpc, staleWrites, notLive>>

\* fetchRoom: the fresh read of the participants and what follows it
LiveCheckConnected(u) ==
  /\ lv[u].pc = "marked"
  /\ IF allConnected(connected_at)
       THEN /\ dbRoom' = [dbRoom EXCEPT !.status = "live"]
            /\ lv' = [lv EXCEPT ![u].pc = "idle", ![u].phase = "setup"]
       ELSE /\ lv' = [lv EXCEPT ![u].pc = "idle",
                        ![u].phase = IF lv[u].status = "live"
                                       THEN "setup"
                                       ELSE "waiting_for_opponent"]
            /\ UNCHANGED dbRoom
  /\ UNCHANGED <<connected_at, feed, rpc, staleWrites, notLive>>

\* the postgres_changes handler on debate_participants
LiveParticipantsChanged(u) ==
  /\ feed[u].participants
  /\ feed' = [feed EXCEPT ![u].participants = FALSE]
  /\ IF allConnected(connected_at) /\ lv[u].phase = "waiting_for_opponent"
       THEN /\ dbRoom' = IF dbRoom.status = "reserved"
                           THEN [dbRoom EXCEPT !.status = "live"]
                           ELSE dbRoom
            /\ lv' = [lv EXCEPT ![u].phase = "setup"]
       ELSE UNCHANGED <<dbRoom, lv>>
  /\ UNCHANGED <<connected_at, rpc, staleWrites, notLive>>

\* the "Transition alerts" buttons of the setup screen
LiveTransitionModes == {"audio", "visual", "both"}

setTransitionMode(u, mode) ==
  /\ lv[u].pc = "idle" /\ lv[u].phase = "setup"
  /\ lv[u].transitionMode # mode
  /\ lv' = [lv EXCEPT ![u].transitionMode = mode]
  /\ UNCHANGED <<dbRoom, connected_at, feed, rpc, staleWrites, notLive>>

\* the setup screen's button; media is whether initializeWebRTC succeeded
handleConnectAndStart(u, media) ==
  /\ lv[u].pc = "idle" /\ lv[u].phase = "setup"
  /\ IF media
       THEN /\ feed' = [feed EXCEPT ![OtherUser(u)].user_ready = TRUE]
            /\ lv' = [lv EXCEPT ![u].phase = "prep"]
       ELSE UNCHANGED <<feed, lv>>
  /\ UNCHANGED <<dbRoom, connected_at, rpc, staleWrites, notLive>>

\* the user_ready handler: WebRTC signalling only
LiveUserReady(u) ==
  /\ feed[u].user_ready
  /\ feed' = [feed EXCEPT ![u].user_ready = FALSE]
  /\ UNCHANGED <<lv, dbRoom, connected_at, rpc, staleWrites, notLive>>

\* PrepTimer's onSkip (it is rendered without totalSeconds, so its own
\* countdown never completes).  The overlay this shows is rendered
\* without isVisible and draws nothing, so no handler completes it.
handlePrepComplete(u) ==
  /\ lv[u].phase = "prep"
  /\ lv' = [lv EXCEPT ![u].nextPhaseAfterTransition = "prop_constructive",
                      ![u].showTransition = TRUE]
  /\ UNCHANGED <<dbRoom, connected_at, feed, rpc, staleWrites, notLive>>

\* ---- the room's functions, callable by either participant whatever
\* ---- its page shows (no page calls them)

\* get_room_with_participants: the caller reads the room row
get_room_with_participants(u) ==
  /\ rpc' = [rpc EXCEPT ![u].current_phase = dbRoom.current_phase]
  /\ UNCHANGED <<lv, dbRoom, connected_at, feed, staleWrites, notLive>>

\* advance_debate_phase(room, what the caller read, next).  Its RETURN
\* compares a BOOLEAN with 0: where the server rejects that comparison
\* the call raises and its update is rolled back.  The update replaces
\* only the value the caller read, so it is never a stale write.
advance_debate_phase(u, p_next_phase, raised) ==
  /\ IF raised
       THEN /\ rpc' = [rpc EXCEPT ![u].ret = "error"]
            /\ UNCHANGED dbRoom
       ELSE IF dbRoom.current_phase = rpc[u].current_phase
       THEN /\ dbRoom' = [dbRoom EXCEPT !.current_phase = p_next_phase]
            /\ rpc' = [rpc EXCEPT ![u].current_phase = p_next_phase,
                                  ![u].ret = "true"]
       ELSE /\ rpc' = [rpc EXCEPT ![u].ret = "false"]
            /\ UNCHANGED dbRoom
  /\ UNCHANGED <<lv, connected_at, feed, staleWrites, notLive>>

get_timer_state(u) ==
  /\ rpc' = [rpc EXCEPT ![u].timer_state = dbRoom.timer_state]
  /\ UNCHANGED <<lv, dbRoom, connected_at, feed, staleWrites, notLive>>

\* set_timer_state(room, state): every state written carries a later
\* time stamp than the ones before it, so states are numbered
set_timer_state(u) ==
  /\ dbRoom.timer_state < MaxTimerWrites
  /\ dbRoom' = [dbRoom EXCEPT !.timer_state = dbRoom.timer_state + 1]
  /\ rpc' = [rpc EXCEPT ![u].timer_state = dbRoom.timer_state + 1]
  /\ staleWrites' = IF rpc[u].timer_state # dbRoom.timer_state
                      THEN [staleWrites EXCEPT !.timer_state = @ + 1]
                      ELSE staleWrites
  /\ UNCHANGED <<lv, connected_at, feed, notLive>>

\* the browser reloads the page in the middle of the preparation phase:
\* the effect's cleanup removes the channel, and LiveDebateRoom is
\* mounted anew with its initial state
LiveReload(u) ==
  /\ lv[u].pc = "idle" /\ lv[u].phase = "prep"
  /\ lv' = [lv EXCEPT ![u] = [InitialLive EXCEPT !.resumeFrom = lv[u].phase]]
  /\ feed' = [feed EXCEPT ![u] = NoFeed]
  /\ UNCHANGED <<dbRoom, connected_at, rpc, staleWrites, notLive>>

NextLive ==
  \/ \E u \in LiveUsers : LiveReload(u)
  \/ \E u \in LiveUsers : LiveFetchRoom(u)
  \/ \E u \in LiveUsers : LiveMarkConnected(u)
  \/ \E u \in LiveUsers : LiveCheckConnected(u)
  \/ \E u \in LiveUsers : LiveParticipantsChanged(u)
  \/ \E u \in LiveUsers, media \in BOOLEAN : handleConnectAndStart(u, media)
  \/ \E u \in LiveUsers : LiveUserReady(u)
  \/ \E u \in LiveUsers : handlePrepComplete(u)
  \/ \E u \in LiveUsers, mode \in LiveTransitionModes : setTransitionMode(u, mode)

\* the participants' calls of the room's functions
NextRpc ==
  \/ \E u \in LiveUsers : get_room_with_participants(u)
  \/ \E u \in LiveUsers, n \in NextPhases, raised \in BOOLEAN :
       advance_debate_phase(u, n, raised)
  \/ \E u \in LiveUsers : get_timer_state(u)
  \/ \E u \in LiveUsers : set_timer_state(u)

----------------------------------------------------------------------------
(* Properties of the live room                                             *)

\* nothing of the synchronisation is under way: both pages have loaded
\* and every realtime message has been delivered
LiveQuiet ==
  \A u \in LiveUsers :
    /\ lv[u].pc = "idle"
    /\ ~feed[u].participants
    /\ ~feed[u].user_ready

\* C7: in a human-vs-human session both participants observe the same
\* phase: once nothing is left to propagate, the two pages hold the same
\* phase, and a page is past setup only if the room row's phase has been
\* advanced.
C7_SamePhase ==
  LiveQuiet =>
    /\ lv["u1"].phase = lv["u2"].phase
    /\ \A u \in LiveUsers :
         lv[u].phase = "prep" => dbRoom.current_phase # "waiting"

\* C8: every write to the room's current_phase or timer_state is
\* conditional on the value the writer last read: no write of either
\* field replaces a value the writer had not read.
C8_NoBlindOverwrite ==
  /\ staleWrites.current_phase = 0
  /\ staleWrites.timer_state = 0

\* C28: a page reloaded in the middle of a phase resumes that phase
\* (with the remaining time of the persisted timer state): when its
\* loading completes, it shows the phase it showed when it was reloaded.
C28_ReloadResumesPhase ==
  [][\A u \in LiveUsers :
       (/\ lv[u].resumeFrom = "prep"
        /\ lv[u].pc = "marked"
        /\ lv'[u].pc = "idle")
       => lv'[u].phase = "prep"]_vars

\* C31: of the advance_debate_phase calls that name the same expected
\* phase exactly one returns true and advances the phase; the others
\* return false, raise no error and change nothing.
C31_OneCallAdvances ==
  /\ [](\A u \in LiveUsers : rpc[u].ret # "error")
  /\ [][\A u \in LiveUsers :
          /\ (rpc'[u] # rpc[u] /\ rpc'[u].ret = "true")
               => (/\ dbRoom.current_phase = rpc[u].current_phase
                   /\ dbRoom'.current_phase = rpc'[u].current_phase)
          /\ (rpc'[u].ret = "false" /\ rpc[u].ret # "false")
               => (/\ dbRoom' = dbRoom
                   /\ dbRoom.current_phase # rpc[u].current_phase)
       ]_vars

\* C35: in every transition mode of the setup screen a pause of the live
\* room can complete: while the pause is shown, the page has a step (a
\* button of the overlay or one of its timers) that starts the pending
\* speech phase.
C35_PauseCanComplete ==
  \A u \in LiveUsers :
    (lv[u].showTransition /\ lv[u].nextPhaseAfterTransition # "null")
      => ENABLED (NextLive /\ lv'[u].phase = lv[u].nextPhaseAfterTransition)

----------------------------------------------------------------------------
(***************************************************************************)
(* Part E.  The life of a session                                          *)
(*                                                                         *)
(* One private human-vs-human room made by handleRematch: reserved, with   *)
(* the creator's participant row and an active invite.  Other users open   *)
(* the invite link and join; participants open the live page, connect,     *)
(* hang up and come back.  Every await of handleJoin and of the live       *)
(* page's fetchRoom is a step boundary.                                    *)
(***************************************************************************)

Creator == "u1"
Joiners == {"u2", "u3"}
SUsers == {Creator} \cup Joiners

RoomStatuses == {"reserved", "live", "completed", "abandoned"}
Terminal == {"completed", "abandoned"}

NoRow == [present |-> FALSE, role |-> "null", speaking_order |-> 0,
          connected |-> FALSE]

\* useState initial values of a LiveDebateRoom page that is not open
ClosedPage == [pc |-> "away", phase |-> "loading", status |-> "none"]

\* handleRematch has inserted the room, the creator's row and the invite
InitSess ==
  /\ sRoom = [status |-> "reserved"]
  /\ sParts = [u \in SUsers |->
                 IF u = Creator
                 THEN [present |-> TRUE, role |-> "proposition",
                       speaking_order |-> 1, connected |-> FALSE]
                 ELSE NoRow]
  /\ sInvite = "active"
  /\ ipage = [j \in Joiners |-> "closed"]
  /\ lpage = [u \in SUsers |-> ClosedPage]
  /\ sFeed = [u \in SUsers |-> "none"]
  /\ leftLive = {}

\* the debate_participants rows of the room
Present(parts) == {u \in SUsers : parts[u].present}

\* humanParticipants.every(p => p.connected_at) && humanParticipants.length >= 2
bothConnected(parts) ==
  /\ \A u \in Present(parts) : parts[u].connected
  /\ Cardinality(Present(parts)) >= 2

\* ---- the Invite page ----

\* fetchInvite: the page keeps the invite only if it is active
fetchInvite(j) ==
  /\ ipage[j] = "closed"
  /\ sInvite = "active"
  /\ ipage' = [ipage EXCEPT ![j] = "loaded"]
  /\ UNCHANGED <<sRoom, sParts, sInvite, lpage, sFeed, leftLive, notSess>>

\* handleJoin: insert the participant row (unique_participant rejects a
\* second row of the same user; the handler then ends in its catch block)
handleJoinInsert(j) ==
  /\ ipage[j] = "loaded"
  /\ IF sParts[j].present
       THEN UNCHANGED <<sParts, ipage>>
       ELSE /\ sParts' = [sParts EXCEPT ![j] =
                 [present |-> TRUE, role |-> "opposition",
                  speaking_order |-> 2, connected |-> TRUE]]
            /\ ipage' = [ipage EXCEPT ![j] = "inserted"]
  /\ UNCHANGED <<sRoom, sInvite, lpage, sFeed, leftLive, notSess>>

\* handleJoin: invites.update({status: 'consumed'}).eq('id', invite.id);
\* "Users can update own invites" lets a user who did not create the
\* invite update it only while it is active
handleJoinConsume(j) ==
  /\ ipage[j] = "inserted"
  /\ sInvite' = "consumed"
  /\ ipage' = [ipage EXCEPT ![j] = "consumed"]
  /\ UNCHANGED <<sRoom, sParts, lpage, sFeed, leftLive, notSess>>

\* handleJoin: debate_rooms.update({status: 'live'}).eq('id', room_id),
\* then navigate to the room, which redirects to its live page
handleJoinLive(j) ==
  /\ ipage[j] = "consumed"
  /\ sRoom' = [sRoom EXCEPT !.status = "live"]
  /\ ipage' = [ipage EXCEPT ![j] = "closed"]
  /\ lpage' = [lpage EXCEPT ![j] = [ClosedPage EXCEPT !.pc = "mount"]]
  /\ UNCHANGED <<sParts, sInvite, sFeed, leftLive, notSess>>

\* ---- the live page of a participant ----

\* a participant opens /room/:id/live (the room row is readable by its
\* participants only)
OpenLive(u) ==
  /\ sParts[u].present
  /\ lpage[u].pc = "away"
  /\ u \in Joiners => ipage[u] = "closed"
  /\ lpage' = [lpage EXCEPT ![u].pc = "mount"]
  /\ UNCHANGED <<sRoom, sParts, sInvite, ipage, sFeed, leftLive, notSess>>

\* fetchRoom: the select of the room row
SessFetchRoom(u) ==
  /\ lpage[u].pc = "mount"
  /\ lpage' = [lpage EXCEPT ![u].pc = "fetched", ![u].status = sRoom.status]
  /\ UNCHANGED <<sRoom, sParts, sInvite, ipage, sFeed, leftLive, notSess>>

\* fetchRoom: the update of connected_at, reported to every open page
SessMarkConnected(u) ==
  /\ lpage[u].pc = "fetched"
  /\ sParts' = [sParts EXCEPT ![u].connected = TRUE]
  /\ sFeed' = [v \in SUsers |-> IF lpage[v].pc # "away" THEN "pending"
                                                        ELSE sFeed[v]]
  /\ lpage' = [lpage EXCEPT ![u].pc = "marked"]
  /\ UNCHANGED <<sRoom, sInvite, ipage, leftLive, notSess>>

\* fetchRoom: the fresh read of the participants;
\* debate_rooms.update({status: 'live'}).eq('id', id) if all are connected.
\* fetchRoom returns, and its roomData is gone with it
SessCheckConnected(u) ==
  /\ lpage[u].pc = "marked"
  /\ IF bothConnected(sParts)
       THEN /\ sRoom' = [sRoom EXCEPT !.status = "live"]
            /\ lpage' = [lpage EXCEPT ![u].pc = "idle", ![u].phase = "setup",
                                      ![u].status = "none"]
       ELSE /\ lpage' = [lpage EXCEPT ![u].pc = "idle",
                           ![u].phase = IF lpage[u].status = "live"
                                          THEN "setup"
                                          ELSE "waiting_for_opponent",
                           ![u].status = "none"]
            /\ UNCHANGED sRoom
  /\ UNCHANGED <<sParts, sInvite, ipage, sFeed, leftLive, notSess>>

\* mutation: the handler's status write is not conditional on reserved
participantsUpdated_mut(parts, rm, pg) ==
  IF bothConnected(parts) /\ pg.phase = "waiting_for_opponent"
    THEN [room |-> [rm EXCEPT !.status = "live"],
          page |-> [pg EXCEPT !.phase = "setup"]]
    ELSE [room |-> rm, page |-> pg]

\* the postgres_changes UPDATE handler on debate_participants, run by a
\* page in state pg on the rows parts and the room rm:
\* update({status: 'live'}).eq('id', id).eq('status', 'reserved')
participantsUpdated(parts, rm, pg) ==
  IF bothConnected(parts) /\ pg.phase = "waiting_for_opponent"
    THEN [room |-> IF rm.status = "reserved"
                     THEN [rm EXCEPT !.status = "live"]
                     ELSE rm,
          page |-> [pg EXCEPT !.phase = "setup"]]
    ELSE [room |-> rm, page |-> pg]

\* what the feed does with a notification it has handed to the handler:
\* it is done with it, or it will deliver it once more
Delivered(f, again) ==
  IF f = "pending" THEN (IF again THEN "again" ELSE "none") ELSE "twice"

\* a notification of a participant update reaches the page of u, for
\* the first time (pending) or as a duplicate (again)
SessParticipantsChanged(u) ==
  /\ sFeed[u] \in {"pending", "again"}
  /\ \E again \in BOOLEAN :
       sFeed' = [sFeed EXCEPT ![u] = Delivered(sFeed[u], again)]
  /\ sRoom' = participantsUpdated(sParts, sRoom, lpage[u]).room
  /\ lpage' = [lpage EXCEPT ![u] = participantsUpdated(sParts, sRoom, lpage[u]).page]
  /\ UNCHANGED <<sParts, sInvite, ipage, leftLive, notSess>>

\* the hang-up button of the live page: navigate('/play'); the page is
\* unmounted and its channel removed
LiveLeave(u) ==
  /\ lpage[u].pc = "idle"
  /\ lpage' = [lpage EXCEPT ![u] = ClosedPage]
  /\ sFeed' = [sFeed EXCEPT ![u] = "none"]
  /\ leftLive' = IF sRoom.status = "live" /\ leftLive = {}
                    THEN {u} ELSE leftLive
  /\ UNCHANGED <<sRoom, sParts, sInvite, ipage, notSess>>

\* ---- status writes of Room.tsx, as the store receives them ----

\* handleLeaveRoom: update({status: 'abandoned', ended_reason: 'disconnect'})
\* .eq('id', id).  "System can update rooms" admits the update of any
\* participant of the room.
AbandonUpdate(u) ==
  /\ sParts[u].present
  /\ sRoom.status # "abandoned"
  /\ sRoom' = [sRoom EXCEPT !.status = "abandoned"]
  /\ UNCHANGED <<sParts, sInvite, ipage, lpage, sFeed, leftLive, notSess>>

\* handleSubmitResult: update({status: 'completed', ended_reason: 'completed'})
\* .eq('id', id)
CompleteUpdate(u) ==
  /\ sParts[u].present
  /\ sRoom.status # "completed"
  /\ sRoom' = [sRoom EXCEPT !.status = "completed"]
  /\ UNCHANGED <<sParts, sInvite, ipage, lpage, sFeed, leftLive, notSess>>

NextSess ==
  \/ \E j \in Joiners : fetchInvite(j)
  \/ \E j \in Joiners : handleJoinInsert(j)
  \/ \E j \in Joiners : handleJoinConsume(j)
  \/ \E j \in Joiners : handleJoinLive(j)
  \/ \E u \in SUsers : OpenLive(u)
  \/ \E u \in SUsers : SessFetchRoom(u)
  \/ \E u \in SUsers : SessMarkConnected(u)
  \/ \E u \in SUsers : SessCheckConnected(u)
  \/ \E u \in SUsers : SessParticipantsChanged(u)
  \/ \E u \in SUsers : LiveLeave(u)
  \/ \E u \in SUsers : AbandonUpdate(u)
  \/ \E u \in SUsers : CompleteUpdate(u)

----------------------------------------------------------------------------
(* Properties of the life of a session                                     *)

\* C22: when a participant has left a live human-vs-human session, the
\* session is abandoned.
C22_LeaveAbandons == leftLive # {} => sRoom.status = "abandoned"

\* C23: a session moves to abandoned only from live: a step that makes the
\* stored status abandoned starts from the stored status live.
C23_AbandonOnlyFromLive ==
  [][(sRoom'.status = "abandoned" /\ sRoom.status # "abandoned")
     => sRoom.status = "live"]_vars

\* C24: completed and abandoned are terminal: no step changes the status
\* of a session that is completed or abandoned.
C24_TerminalStays ==
  [][sRoom.status \in Terminal => sRoom'.status = sRoom.status]_vars

\* C25: a session is live only once both sides are present: while it is
\* live it has two participants and every one of them has connected.
C25_LiveOnlyWhenBothPresent ==
  sRoom.status = "live"
  => /\ Cardinality({u \in SUsers : sParts[u].present}) >= 2
     /\ \A u \in SUsers : sParts[u].present => sParts[u].connected

\* C26: a session never has a third participant, and its participants are
\* on different sides: no two of them hold the same role or the same
\* speaking order.
C26_TwoParticipants ==
  /\ Cardinality({u \in SUsers : sParts[u].present}) <= 2
  /\ \A u, v \in SUsers :
       (u # v /\ sParts[u].present /\ sParts[v].present)
       => /\ sParts[u].role # sParts[v].role
          /\ sParts[u].speaking_order # sParts[v].speaking_order

\* C30: a change notification that is delivered again leaves the shared
\* state as one delivery leaves it.  Run twice in a row, the handler
\* leaves the room as after one run.  The delivery of a duplicate, however
\* late, changes no participant, no invite, no rating and no history, and
\* it writes no status except the reserved -> live of a page still
\* waiting with both sides connected, the write of a first delivery;
\* as no room comes back to reserved, that write takes effect once.
C30_DuplicateDelivery ==
  /\ [](\A u \in SUsers :
          LET once == participantsUpdated(sParts, sRoom, lpage[u])
          IN participantsUpdated(sParts, once.room, once.page) = once)
  /\ [][ /\ \A u \in SUsers :
              (sFeed[u] = "again" /\ sFeed'[u] = "twice")
              => (/\ sParts' = sParts
                  /\ sInvite' = sInvite
                  /\ notSess' = notSess
                  /\ (sRoom' # sRoom)
                       => (/\ sRoom.status = "reserved"
                           /\ sRoom'.status = "live"
                           /\ bothConnected(sParts)
                           /\ lpage[u].phase = "waiting_for_opponent"))
         /\ (sRoom.status # "reserved") => (sRoom'.status # "reserved")
       ]_vars

\* C30 witness: a duplicate has been delivered to a waiting page with
\* both sides connected in a room that is no longer reserved
C30_Witness ==
  \E u \in SUsers :
    /\ sFeed[u] = "twice"
    /\ lpage[u].pc = "idle" /\ lpage[u].phase = "setup"
    /\ bothConnected(sParts)
    /\ sRoom.status = "abandoned"

----------------------------------------------------------------------------
(***************************************************************************)
(* Specifications                                                          *)
(***************************************************************************)

\* the rating part at rest
QueueRest ==
  /\ tabs = [c \in QClients |-> [user |-> "u1", component |-> "hook"]]
  /\ queue = [e \in EntryIds |-> NoEntry]
  /\ rooms = <<>>
  /\ cl = [c \in QClients |-> IdleClient]
  /\ fb = [e \in EntryIds |-> IdleFallback]
  /\ mm = [c \in Matchers |-> IdleMatcher]
  /\ matchedCount = [e \in EntryIds |-> 0]

RatingRest ==
  /\ room = NoRoom
  /\ submissions = [u \in Users |-> "none"]
  /\ profiles = [u \in Players |-> NoProfile]
  /\ match_history = <<>>
  /\ elo = IdleElo
  /\ eloCalls = 0
  /\ submit = [u \in Players |-> "idle"]
  /\ clientRoom = [u \in Players |-> NoRoom]
  /\ ratingWrites = [u \in Players |-> 0]
  /\ resubmit = [u \in Players |-> "none"]

DebateRest ==
  /\ pd = InitialDebate
  /\ tcd = InitialCountdown
  /\ phaseLog = <<>>
  /\ spoke = [user |-> {}, ai |-> {}, fallback |-> {}, late |-> {}]

LiveRest ==
  /\ lv = [u \in LiveUsers |-> InitialLive]
  /\ dbRoom = [status |-> "reserved", current_phase |-> "waiting",
               timer_state |-> 0]
  /\ connected_at = [u \in LiveUsers |-> FALSE]
  /\ feed = [u \in LiveUsers |-> NoFeed]
  /\ rpc = [u \in LiveUsers |-> [current_phase |-> "waiting", timer_state |-> 0,
                                  ret |-> "none"]]
  /\ staleWrites = [current_phase |-> 0, timer_state |-> 0]

SessRest ==
  /\ sRoom = [status |-> "reserved"]
  /\ sParts = [u \in SUsers |-> NoRow]
  /\ sInvite = "active"
  /\ ipage = [j \in Joiners |-> "closed"]
  /\ lpage = [u \in SUsers |-> ClosedPage]
  /\ sFeed = [u \in SUsers |-> "none"]
  /\ leftLive = {}

RatingInit == InitRating /\ QueueRest /\ DebateRest /\ LiveRest /\ SessRest

SpecRating == RatingInit /\ [][NextRating]_vars

QueueInit == InitQueue /\ RatingRest /\ DebateRest /\ LiveRest /\ SessRest

SpecQueue == QueueInit /\ [][NextQueue]_vars

DebateInit == InitDebate /\ RatingRest /\ QueueRest /\ LiveRest /\ SessRest

SpecDebate == DebateInit /\ [][NextDebate]_vars

ProfilesInit == InitProfiles /\ QueueRest /\ DebateRest /\ LiveRest /\ SessRest

SpecProfiles == ProfilesInit /\ [][NextProfiles]_vars

LiveInit == InitLive /\ RatingRest /\ QueueRest /\ DebateRest /\ SessRest

SpecLive == LiveInit /\ [][NextLive]_vars

RpcInit == InitLive /\ RatingRest /\ QueueRest /\ DebateRest /\ SessRest

SpecRpc == RpcInit /\ [][NextRpc]_vars

SessInit == InitSess /\ RatingRest /\ QueueRest /\ DebateRest /\ LiveRest

SpecSess == SessInit /\ [][NextSess]_vars

====
